---- MODULE Spec2Model ----
(***************************************************************************)
(* Turn orchestration engine of the hotel shopping agent                   *)
(* (services/agent/app): the LLM_DECIDE / CALL_TOOL / LLM_RESPOND graph,   *)
(* its resolver prelude, the fingerprint-based cache invalidation, the     *)
(* tool-call budget and the /chat handler that loads and stores the        *)
(* session snapshot around one graph run.                                  *)
(*                                                                         *)
(* Python dicts are functions whose DOMAIN is the set of present keys; a   *)
(* key holding None is modelled as an absent key (every read in the source *)
(* goes through dict.get or model_dump(exclude_none=True)).  Optional      *)
(* scalars that are not dict entries are sequences of length 0 or 1.       *)
(***************************************************************************)
EXTENDS Integers, Sequences, FiniteSets, TLC

\* ------------------------------------------------------------------ bounds
\* Number of /chat turns explored for one session.
MaxTurns == 2
MaxCandidates == 21

\* ------------------------------------------------------- program constants
max_tool_calls_per_turn == 8
respond_max_attempts == 3
TopN == 3

\* ------------------------------------------------------------ value domains
EmptyDict == [k \in {} |-> 0]

\* Python truthiness of d.get(k): absent/None and "" are falsy.  The numeric
\* fields are validated as >= 1 (or > 0), so they are truthy when present.
Truthy(d, k) == k \in DOMAIN d /\ (k = "city" => d[k] # "")

Restrict(d, S) == [k \in (DOMAIN d) \cap S |-> d[k]]

Without(d, S) == [k \in (DOMAIN d) \ S |-> d[k]]

InSeq(x, s) == \E i \in 1..Len(s) : s[i] = x

Prefix(s, n) == [i \in 1..(IF n < Len(s) THEN n ELSE Len(s)) |-> s[i]]

RECURSIVE SelectSeqBy(_, _)
\* list comprehension [x for x in s if x.offer.hotel_id in H]
SelectSeqBy(s, H) ==
    IF s = <<>> THEN <<>>
    ELSE IF Head(s).offer.hotel_id \in H
         THEN <<Head(s)>> \o SelectSeqBy(Tail(s), H)
         ELSE SelectSeqBy(Tail(s), H)

\* Dates carry their representation: a datetime.date object inside a turn,
\* an ISO string after the JSON round trip through the snapshot.
CheckInIso == "2026-03-10"
CheckOutIso == "2026-03-12"
DateObj(v) ==
    CASE v = CheckInIso -> "date(2026,3,10)"
      [] v = CheckOutIso -> "date(2026,3,12)"
      [] OTHER -> v
IsoOf(v) ==
    CASE v = "date(2026,3,10)" -> CheckInIso
      [] v = "date(2026,3,12)" -> CheckOutIso
      [] OTHER -> v

DateKeys == {"check_in", "check_out"}

\* LLMConstraints.model_validate(d).model_dump(exclude_none=True):
\* ISO strings become date objects, None-valued keys disappear.
LLMConstraintsDump(d) ==
    [k \in DOMAIN d |-> IF k \in DateKeys THEN DateObj(IsoOf(d[k])) ELSE d[k]]

\* json.dumps(constraints, default=str) followed by the JSONB load.
JsonRoundTrip(d) ==
    [k \in DOMAIN d |-> IF k \in DateKeys THEN IsoOf(d[k]) ELSE d[k]]

\* ------------------------------------------------------- graph_helpers.py
\* missing_required_fields: the missing groups, in the fixed source order.
missing_required_fields(c) ==
    (IF Truthy(c, "city") THEN <<>> ELSE <<"city">>)
    \o (IF Truthy(c, "check_in") /\ Truthy(c, "check_out") THEN <<>> ELSE <<"dates">>)
    \o (IF Truthy(c, "adults") THEN <<>> ELSE <<"adults">>)
    \o (IF Truthy(c, "rooms") THEN <<>> ELSE <<"rooms">>)

\* A user-visible message: the template that produced it ("llm_text" for
\* text generated by the model), the required fields it asks for, the
\* monetary and timestamp tokens it contains, the offer card it renders and
\* whether it contains the substrings "hotel_id" / "offer_id".
Msg(tmpl, asks, money, ts, offer, hid, oid) ==
    [tmpl |-> tmpl, asks |-> asks, money |-> money, ts |-> ts, offer |-> offer,
     has_hotel_id |-> hid, has_offer_id |-> oid]

FixedMsg(tmpl, asks) == Msg(tmpl, asks, {}, {}, <<>>, FALSE, FALSE)

NoMsg == FixedMsg("", {})

clarify_message(missing, c) ==
    LET city == Truthy(c, "city")
        ci == Truthy(c, "check_in")
        co == Truthy(c, "check_out")
    IN  IF missing = <<"adults", "rooms">> /\ city /\ ci /\ co
            THEN FixedMsg("clarify:I can search {city} for {ci} to {co}. How many adults and rooms?",
                          {"adults", "rooms"})
        ELSE IF InSeq("dates", missing) /\ city
            THEN FixedMsg("clarify:What dates should I use for {city}?", {"dates"})
        ELSE IF InSeq("city", missing) /\ InSeq("dates", missing)
            THEN FixedMsg("clarify:Which city and dates?", {"city", "dates"})
        ELSE IF InSeq("city", missing)
            THEN FixedMsg("clarify:Which city should I search in?", {"city"})
        ELSE IF InSeq("dates", missing)
            THEN FixedMsg("clarify:What are your check-in and check-out dates?", {"dates"})
        ELSE IF InSeq("adults", missing) /\ InSeq("rooms", missing)
            THEN FixedMsg("clarify:How many adults and rooms?", {"adults", "rooms"})
        ELSE IF InSeq("adults", missing)
            THEN FixedMsg("clarify:How many adults?", {"adults"})
        ELSE IF InSeq("rooms", missing)
            THEN FixedMsg("clarify:How many rooms?", {"rooms"})
        ELSE FixedMsg("clarify:What details should I use to continue?", {})

\* merge_constraints_dict: update is <<>> (None) or <<u>>; the update's
\* model_dump holds date objects.  f @@ g takes f where both are defined.
merge_constraints_dict(base, update) ==
    IF update = <<>> THEN base
    ELSE LLMConstraintsDump(update[1]) @@ base

tool_constraint_keys ==
    {"city", "check_in", "check_out", "adults", "children", "rooms", "max_price",
     "min_star", "amenities", "refundable_preferred", "currency"}

tool_constraint_subset(d) == Restrict(d, tool_constraint_keys)

\* ---------------------------------------------------------- constraints.py
\* Constraints(**tool_constraint_subset(parsed)).is_complete()
is_complete_without_rooms(parsed) ==
    LET c == tool_constraint_subset(parsed)
    IN  Truthy(c, "city") /\ Truthy(c, "check_in") /\ Truthy(c, "check_out")
        /\ Truthy(c, "adults")
is_complete(parsed) ==
    LET c == tool_constraint_subset(parsed)
    IN  Truthy(c, "city") /\ Truthy(c, "check_in") /\ Truthy(c, "check_out")
        /\ Truthy(c, "adults") /\ Truthy(c, "rooms")

\* ----------------------------------------------------------------- graph.py
\* _tool_constraints_key: the tool-relevant subset with dates as ISO
\* strings; json.dumps(sort_keys=True) is injective on these values, so the
\* canonical dict itself stands for the string.
tool_constraints_key_of(c) ==
    LET subset == tool_constraint_subset(c)
    IN  [k \in DOMAIN subset |-> IF k \in DateKeys THEN IsoOf(subset[k]) ELSE subset[k]]

\* cur_key as computed at every use: from the validated, dumped constraints.
CurKey(c) == tool_constraints_key_of(LLMConstraintsDump(c))

\* ------------------------------------------------- what the tools can return
O1 == [offer_id |-> "o1", hotel_id |-> "h1", total_price |-> 100,
       expires_ts |-> "2026-03-01T00:00:00Z"]
\* search_candidates answers with no hotel, or with MaxCandidates hotels,
\* more than get_offers prices in one turn.
SearchResults ==
    {<<>>,
     [i \in 1..MaxCandidates |->
        IF i = 1 THEN [hotel_id |-> "h1", name |-> "Hotel One", star_rating |-> 4]
        ELSE IF i = 2 THEN [hotel_id |-> "h2", name |-> "Hotel Two", star_rating |-> 3]
        ELSE [hotel_id |-> "h" \o ToString(i), name |-> "Hotel", star_rating |-> 3]]}

OfferResults ==
    {<<>>, <<O1, [offer_id |-> "o2", hotel_id |-> "h2", total_price |-> 200,
                  expires_ts |-> "2026-03-02T00:00:00Z"]>>}

\* rank_offers answers with every offer it was given, scored; it is called
\* with offers only.
RankResults(offs) == {[i \in 1..Len(offs) |-> [offer |-> offs[i]]]}

\* ------------------------------------------ what the language model can say
SomeCity == "Austin"

ExtractUpdates ==
    { "city" :> SomeCity,
      "city" :> "",
      ("city" :> SomeCity) @@ ("check_in" :> CheckInIso) @@ ("check_out" :> CheckOutIso)
          @@ ("adults" :> 2) @@ ("rooms" :> 1),
      "min_star" :> 4 }

\* constraints_update of the decision call: any schema-valid LLMConstraints;
\* the empty city is schema-valid (city: str | None) and blanks the city.
DecisionUpdates == { "city" :> "" }

Opt(S) == {<<>>} \cup {<<x>> : x \in S}

\* Text generated by the model for the user.
LlmText(money, ts, hid) == Msg("llm_text", {}, money, ts, <<>>, hid, hid)

LlmTexts ==
    { LlmText({}, {}, FALSE),
      LlmText({100}, {"2026-03-01T00:00:00Z"}, TRUE),
      LlmText({999}, {"2031-01-01T00:00:00Z"}, FALSE) }

\* ---------------------------------------------------------------- the state
VARIABLES
    pc,                    \* position of the /chat request in the graph
    turn,                  \* number of /chat requests started
    snapshot,              \* persisted session snapshot: <<>> or <<record>>
    constraints,           \* GraphState.constraints
    candidates,            \* GraphState.candidates
    offers,                \* GraphState.offers
    ranked_offers,         \* GraphState.ranked_offers
    recommended_offers,    \* GraphState.recommended_offers
    tool_constraints_key,  \* GraphState.tool_constraints_key: <<>> (None) or <<key>>
    key_in_state,          \* "tool_constraints_key" in state
    tool_timeline,         \* GraphState.tool_timeline (tool names of the events)
    tool_calls_this_turn,  \* GraphState.tool_calls_this_turn
    llm_action,            \* GraphState.llm_action
    selected_offer_id,     \* GraphState.selected_offer_id: <<>> or <<id>>
    assistant_message,     \* GraphState.assistant_message
    agent_state,           \* GraphState.agent_state
    end_turn,              \* GraphState._end_turn
    extracted_offer_id,    \* local of _llm_decide: <<>> or <<id>>
    prev_key,              \* local of _llm_decide
    calls,                 \* history: every ToolClient.call of the turn, with the
                           \*   fingerprint of the constraints it was made for
    tool_values,           \* history: money and timestamps returned by tools
    fresh_pipeline,        \* history: the turn's first decision step ran with
                           \*   complete constraints and no cached tool result
    resolver_log,          \* history: the resolver stages run by the step just
                           \*   taken, each with its outcome, its question and the
                           \*   constraints it left
    grounding,             \* one call of validate_grounded_response: <<>> or <<record>>
    fingerprints,          \* one comparison of two fingerprints: <<>> or <<record>>
    tool_client,           \* one ToolClient.call in progress: <<>> or <<record>>
    helper                 \* one call of a graph helper: <<>> or <<record>>

\* The state of the component-level specifications; the graph leaves it alone.
aux == <<grounding, fingerprints, tool_client, helper>>

graph_vars == <<pc, turn, snapshot, constraints, candidates, offers, ranked_offers,
          recommended_offers, tool_constraints_key, key_in_state, tool_timeline,
          tool_calls_this_turn, llm_action, selected_offer_id, assistant_message,
          agent_state, end_turn, extracted_offer_id, prev_key, calls, tool_values,
          fresh_pipeline, resolver_log>>

vars == <<aux, graph_vars>>

tool_state == <<candidates, offers, ranked_offers, recommended_offers,
                tool_constraints_key, key_in_state>>

history == <<calls, tool_values, fresh_pipeline>>

Action(type, kind, tool_name, message) ==
    [type |-> type, kind |-> kind, tool_name |-> tool_name, message |-> message]

NoAction == Action("none", "", "", NoMsg)

Respond(kind, message) == Action("respond", kind, "", message)

CallToolAction(tool_name) == Action("call_tool", "", tool_name, NoMsg)

GraphInit ==
    /\ pc = "IDLE"
    /\ turn = 0
    /\ snapshot = <<>>
    /\ constraints = EmptyDict
    /\ candidates = <<>>
    /\ offers = <<>>
    /\ ranked_offers = <<>>
    /\ recommended_offers = <<>>
    /\ tool_constraints_key = <<>>
    /\ key_in_state = FALSE
    /\ tool_timeline = <<>>
    /\ tool_calls_this_turn = 0
    /\ llm_action = NoAction
    /\ selected_offer_id = <<>>
    /\ assistant_message = NoMsg
    /\ agent_state = ""
    /\ end_turn = FALSE
    /\ extracted_offer_id = <<>>
    /\ prev_key = <<>>
    /\ calls = <<>>
    /\ tool_values = [money |-> {}, ts |-> {}]
    /\ fresh_pipeline = FALSE
    /\ resolver_log = <<>>

Init ==
    /\ GraphInit
    /\ grounding = <<>>
    /\ fingerprints = <<>>
    /\ tool_client = <<>>
    /\ helper = <<>>

\* ------------------------------------------------------------ main.py: /chat
\* The timeline of the last request carried into the turn.
reset_per_turn_state_keeping_timeline ==
    /\ tool_timeline' = tool_timeline
    /\ tool_calls_this_turn' = 0
    /\ llm_action' = NoAction
    /\ selected_offer_id' = <<>>

\* _reset_per_turn_state, on the state loaded from the snapshot.  Between two
\* requests tool_timeline, tool_calls_this_turn, llm_action and
\* selected_offer_id hold what the last request left: the snapshot payload
\* stores that tool_timeline and that selected_offer_id, and the reset
\* overwrites all four before the graph reads any of them.
reset_per_turn_state ==
    /\ tool_timeline' = <<>>
    /\ tool_calls_this_turn' = 0
    /\ llm_action' = NoAction
    /\ selected_offer_id' = <<>>

\* chat(), up to GRAPH.ainvoke: load the snapshot, reset the per-turn state.
\* The snapshot's assistant_message and agent_state are not carried into the
\* turn: every path of the graph writes both before it reads either
\* (MessageSetEveryTurn), so the loaded values are never observed.
chat_start ==
    /\ pc = "IDLE"
    /\ turn < MaxTurns
    /\ turn' = turn + 1
    /\ IF snapshot = <<>>
       THEN /\ constraints' = EmptyDict
            /\ candidates' = <<>>
            /\ offers' = <<>>
            /\ ranked_offers' = <<>>
            /\ recommended_offers' = <<>>
            /\ tool_constraints_key' = <<>>
            /\ key_in_state' = FALSE
            /\ assistant_message' = NoMsg
            /\ agent_state' = ""
       ELSE /\ constraints' = snapshot[1].constraints
            /\ candidates' = snapshot[1].candidates
            /\ offers' = snapshot[1].offers
            /\ ranked_offers' = snapshot[1].ranked_offers
            /\ recommended_offers' = snapshot[1].recommended_offers
            /\ tool_constraints_key' = snapshot[1].tool_constraints_key
            /\ key_in_state' = TRUE
            /\ assistant_message' = NoMsg
            /\ agent_state' = ""
    /\ reset_per_turn_state
    /\ end_turn' = FALSE
    /\ extracted_offer_id' = <<>>
    /\ prev_key' = <<>>
    /\ calls' = <<>>
    /\ fresh_pipeline' = FALSE
    /\ pc' = "EXTRACT"
    /\ UNCHANGED <<snapshot, tool_values>>
    /\ resolver_log' = <<>>
    /\ UNCHANGED aux

\* ------------------------------------------------- graph.py: resolver prelude
\* One entry of resolver_log. outcome is "failed" (no schema-valid result in
\* three attempts), "asked" (needs_clarification) or "resolved".
StageEntry(stage, outcome, question, after) ==
    [stage |-> stage, outcome |-> outcome, question |-> question, after |-> after]

OutcomeOf(r) ==
    IF ~r.ok THEN "failed" ELSE IF r.needs_clarification THEN "asked" ELSE "resolved"

\* The early return left out: the message is set and the decision step runs.
EndTurnWith_without_return(msg) ==
    /\ assistant_message' = msg
    /\ agent_state' = "COLLECT_CONSTRAINTS"
    /\ end_turn' = TRUE
    /\ pc' = "DECISION"

EndTurnWith(msg) ==
    /\ assistant_message' = msg
    /\ agent_state' = "COLLECT_CONSTRAINTS"
    /\ end_turn' = TRUE
    /\ pc' = "END"

ExtractOutcomes ==
    {[ok |-> FALSE, constraints_update |-> <<>>, offer_id |-> <<>>]}
    \cup [ok : {TRUE}, constraints_update : Opt(ExtractUpdates), offer_id : Opt({"o2", "o9"})]

\* The EXTRACT call made before the credential is looked at.
model_config_error_after_extract ==
    /\ pc' = "CONFIG_ERROR"
    /\ resolver_log' = <<StageEntry("EXTRACT", "failed", <<>>, constraints)>>
    /\ UNCHANGED <<constraints, extracted_offer_id>>

\* get_chat_model raises ModelConfigError (OPENAI_API_KEY is not set): nothing
\* else of _llm_decide runs and chat() turns the exception into HTTP 500.
\* The key is a setting of the process, so it is there for the whole turn
\* when it is there at the turn's first entry.
model_config_error ==
    /\ pc' = "CONFIG_ERROR"
    /\ resolver_log' = <<>>
    /\ UNCHANGED <<constraints, extracted_offer_id>>

\* The resolver stages run at the start of the user turn only.
at_turn_start_always == TRUE

\* int(state.get("tool_calls_this_turn") or 0) == 0
at_turn_start == tool_calls_this_turn = 0

\* _llm_decide, entry and Step 1 (EXTRACT).
llm_decide_extract ==
    /\ pc = "EXTRACT"
    /\ agent_state' = "LLM_DECIDE"
    /\ end_turn' = FALSE
    /\ IF at_turn_start
       THEN \/ model_config_error
            \/ \E ext \in ExtractOutcomes :
                 /\ constraints' = IF ext.ok
                                     THEN merge_constraints_dict(constraints,
                                                                 ext.constraints_update)
                                     ELSE constraints
                 /\ extracted_offer_id' = IF ext.ok THEN ext.offer_id ELSE <<>>
                 /\ resolver_log' = <<StageEntry("EXTRACT",
                                                 IF ext.ok THEN "resolved" ELSE "failed",
                                                 <<>>, constraints')>>
                 /\ pc' = "DATE_RESOLVE"
       ELSE /\ constraints' = constraints
            /\ extracted_offer_id' = <<>>
            /\ resolver_log' = <<>>
            \* With the counter above 0 the guards of Steps 1b-1e are all false.
            /\ pc' = "INVALIDATE"
    /\ UNCHANGED <<turn, snapshot, tool_state, tool_timeline, tool_calls_this_turn,
                   llm_action, selected_offer_id, assistant_message, prev_key, history>>
    /\ UNCHANGED aux

\* A question as the model returns it: its text (<<>> when empty or blank)
\* and whether whitespace surrounds it.
Question(body, padded) == [body |-> body, padded |-> padded]

\* LLM*Resolve.question: None (<<>>), a blank string, a question, a question
\* with surrounding whitespace.
Questions ==
    {<<>>, <<Question(<<>>, TRUE)>>}
    \cup {<<Question(<<LlmText({}, {}, FALSE)>>, p)>> : p \in BOOLEAN}

\* (q or "").strip()
strip(q) == IF q = <<>> THEN <<>> ELSE q[1].body

DateOutcomes ==
    {[ok |-> FALSE, needs_clarification |-> FALSE, question |-> <<>>, dates |-> <<>>]}
    \cup [ok : {TRUE}, needs_clarification : {TRUE}, question : Questions, dates : {<<>>}]
    \cup [ok : {TRUE}, needs_clarification : {FALSE}, question : {<<>>},
          dates : Opt({("check_in" :> CheckInIso) @@ ("check_out" :> CheckOutIso)})]

\* The default left out: an empty question gives an empty message.
DateQuestionText_without_default(q) == IF strip(q) = <<>> THEN NoMsg ELSE strip(q)[1]

\* (dr.question or "").strip() or "What dates should I use? ..."
DateQuestionText(q) ==
    IF strip(q) = <<>>
    THEN FixedMsg("clarify:What dates should I use? (YYYY-MM-DD to YYYY-MM-DD)", {"dates"})
    ELSE strip(q)[1]

\* _llm_decide, Step 1b (DATE_RESOLVE).
llm_decide_date_resolve ==
    /\ pc = "DATE_RESOLVE"
    /\ IF InSeq("dates", missing_required_fields(LLMConstraintsDump(constraints)))
          /\ at_turn_start
       THEN \E dr \in DateOutcomes :
              /\ IF dr.ok /\ dr.needs_clarification
                 THEN /\ EndTurnWith(DateQuestionText(dr.question))
                      /\ UNCHANGED constraints
                 ELSE /\ constraints' = IF dr.ok
                                         THEN merge_constraints_dict(constraints, dr.dates)
                                         ELSE constraints
                      /\ pc' = "RESOLVE_NON_DATE"
                      /\ UNCHANGED <<assistant_message, agent_state, end_turn>>
              /\ resolver_log' = <<StageEntry("DATE", OutcomeOf(dr), dr.question, constraints')>>
       ELSE /\ pc' = "RESOLVE_NON_DATE"
            /\ resolver_log' = <<>>
            /\ UNCHANGED <<constraints, assistant_message, agent_state, end_turn>>
    /\ UNCHANGED <<turn, snapshot, tool_state, tool_timeline, tool_calls_this_turn,
                   llm_action, selected_offer_id, extracted_offer_id, prev_key, history>>
    /\ UNCHANGED aux

ResolverFailed ==
    [ok |-> FALSE, needs_clarification |-> FALSE, question |-> <<>>, update |-> <<>>]

\* Outcomes of a resolver call: no schema-valid result in three attempts, a
\* needs_clarification answer, or an (optional) update.
ResolverOutcomes(updates) ==
    {ResolverFailed}
    \cup [ok : {TRUE}, needs_clarification : {TRUE}, question : Questions, update : {<<>>}]
    \cup [ok : {TRUE}, needs_clarification : {FALSE}, question : {<<>>},
          update : Opt(updates)]

BudgetOutcomes ==
    {ResolverFailed}
    \cup [ok : {TRUE}, needs_clarification : {FALSE}, question : {<<>>}, update : Opt({})]

\* A stage that is skipped makes no call: it behaves like one that changed nothing.
OutcomesIf(runs, outcomes) == IF runs THEN outcomes ELSE {ResolverFailed}

Asked(r) == r.ok /\ r.needs_clarification

\* A failed stage clearing the constraints instead of leaving them.
Resolved_failure_clears(c, r) == IF r.ok THEN merge_constraints_dict(c, r.update) ELSE EmptyDict

Resolved(c, r) == IF r.ok THEN merge_constraints_dict(c, r.update) ELSE c

has_tool_state ==
    recommended_offers # <<>> \/ ranked_offers # <<>> \/ offers # <<>> \/ candidates # <<>>

OccupancyMissing(c) ==
    (IF Truthy(c, "adults") THEN <<>> ELSE <<"adults">>)
    \o (IF Truthy(c, "rooms") THEN <<>> ELSE <<"rooms">>)

\* The log entry of a stage, when its guard let it run.
Logged(runs, stage, r, after) ==
    IF runs THEN <<StageEntry(stage, OutcomeOf(r), r.question, after)>> ELSE <<>>

\* _resolve_non_date_fields (Step 1c): CITY, OCCUPANCY, AMENITIES in turn.
resolve_non_date_fields ==
    /\ pc = "RESOLVE_NON_DATE"
    /\ IF at_turn_start
       THEN LET city_runs == ~Truthy(constraints, "city") IN
            \E cr \in OutcomesIf(city_runs, ResolverOutcomes({"city" :> SomeCity})) :
              IF Asked(cr)
              THEN /\ EndTurnWith(clarify_message(<<"city">>, constraints))
                   /\ UNCHANGED constraints
                   /\ resolver_log' = Logged(city_runs, "CITY", cr, constraints)
              ELSE LET c1 == Resolved(constraints, cr)
                       occupancy_runs == ~Truthy(c1, "adults") \/ ~Truthy(c1, "rooms")
                   IN
                \E ocr \in OutcomesIf(occupancy_runs,
                                      ResolverOutcomes({("adults" :> 2) @@ ("rooms" :> 1)})) :
                  IF Asked(ocr)
                  THEN /\ EndTurnWith(clarify_message(OccupancyMissing(c1), c1))
                       /\ constraints' = c1
                       /\ resolver_log' = Logged(city_runs, "CITY", cr, c1)
                                           \o Logged(occupancy_runs, "OCCUPANCY", ocr, c1)
                  ELSE LET c2 == Resolved(c1, ocr)
                           amenities_run == "refundable_preferred" \notin DOMAIN c2
                                              /\ has_tool_state
                       IN
                    \E ar \in OutcomesIf(amenities_run, ResolverOutcomes({})) :
                      /\ constraints' = (IF Asked(ar) THEN c2 ELSE Resolved(c2, ar))
                      /\ pc' = "RESOLVE_BUDGET"
                      /\ resolver_log' = Logged(city_runs, "CITY", cr, c1)
                                          \o Logged(occupancy_runs, "OCCUPANCY", ocr, c2)
                                          \o Logged(amenities_run, "AMENITIES", ar, constraints')
                      /\ UNCHANGED <<assistant_message, agent_state, end_turn>>
       ELSE /\ pc' = "RESOLVE_BUDGET"
            /\ resolver_log' = <<>>
            /\ UNCHANGED <<constraints, assistant_message, agent_state, end_turn>>
    /\ UNCHANGED <<turn, snapshot, tool_state, tool_timeline, tool_calls_this_turn,
                   llm_action, selected_offer_id, extracted_offer_id, prev_key, history>>
    /\ UNCHANGED aux

\* _resolve_budget (Step 1d).
resolve_budget ==
    /\ pc = "RESOLVE_BUDGET"
    /\ IF at_turn_start
       THEN LET budget_runs == ~Truthy(constraints, "max_price") IN
            \E br \in OutcomesIf(budget_runs, BudgetOutcomes) :
              /\ constraints' = Resolved(constraints, br)
              /\ resolver_log' = Logged(budget_runs, "BUDGET", br, constraints')
       ELSE /\ UNCHANGED constraints
            /\ resolver_log' = <<>>
    /\ pc' = "RESOLVE_HARD_FILTERS"
    /\ UNCHANGED <<turn, snapshot, tool_state, tool_timeline, tool_calls_this_turn,
                   llm_action, selected_offer_id, assistant_message, agent_state, end_turn,
                   extracted_offer_id, prev_key, history>>
    /\ UNCHANGED aux

PatchOutcomes ==
    {[ok |-> FALSE, set |-> <<>>, clear |-> {}]}
    \cup [ok : {TRUE}, set : Opt({"min_star" :> 4}), clear : {{}, {"min_star"}}]

\* _resolve_hard_filters_patch (Step 1e): clear first, then set.
resolve_hard_filters_patch ==
    /\ pc = "RESOLVE_HARD_FILTERS"
    /\ IF at_turn_start
       THEN \E patch \in PatchOutcomes :
              /\ constraints' = IF patch.ok
                                THEN merge_constraints_dict(Without(constraints, patch.clear),
                                                            patch.set)
                                ELSE constraints
              /\ resolver_log' = <<StageEntry("HARD_FILTER_PATCH",
                                              IF patch.ok THEN "resolved" ELSE "failed",
                                              <<>>, constraints')>>
       ELSE /\ UNCHANGED constraints
            /\ resolver_log' = <<>>
    /\ pc' = "INVALIDATE"
    /\ UNCHANGED <<turn, snapshot, tool_state, tool_timeline, tool_calls_this_turn,
                   llm_action, selected_offer_id, assistant_message, agent_state, end_turn,
                   extracted_offer_id, prev_key, history>>
    /\ UNCHANGED aux

has_tool_cache ==
    candidates # <<>> \/ offers # <<>> \/ ranked_offers # <<>> \/ recommended_offers # <<>>

\* The fingerprint comparison left out: only a missing key invalidates.
InvalidationDue_missing_key_only == has_tool_cache /\ ~key_in_state

\* The fingerprint check of _llm_decide: drop cached tool results when the
\* key is missing from the state or differs from the current constraints' key.
InvalidationDue ==
    \/ has_tool_cache /\ ~key_in_state
    \/ tool_constraints_key # <<>> /\ tool_constraints_key # <<CurKey(constraints)>>

\* An invalidation that drops the candidates and keeps what was built on them.
llm_decide_invalidate_candidates_only ==
    /\ pc = "INVALIDATE"
    /\ prev_key' = tool_constraints_key
    /\ IF InvalidationDue
       THEN /\ candidates' = <<>>
            /\ UNCHANGED <<offers, ranked_offers, recommended_offers>>
            /\ tool_constraints_key' = <<>>
            /\ key_in_state' = TRUE
       ELSE UNCHANGED tool_state
    /\ fresh_pipeline' = IF tool_calls_this_turn = 0
                         THEN /\ is_complete(LLMConstraintsDump(constraints))
                              /\ candidates' = <<>> /\ offers' = <<>> /\ ranked_offers' = <<>>
                         ELSE fresh_pipeline
    /\ pc' = "DECISION"
    /\ UNCHANGED <<turn, snapshot, constraints, tool_timeline, tool_calls_this_turn,
                   llm_action, selected_offer_id, assistant_message, agent_state, end_turn,
                   extracted_offer_id, calls, tool_values>>
    /\ resolver_log' = <<>>
    /\ UNCHANGED aux
llm_decide_invalidate ==
    /\ pc = "INVALIDATE"
    /\ prev_key' = tool_constraints_key
    /\ IF InvalidationDue
       THEN /\ candidates' = <<>>
            /\ offers' = <<>>
            /\ ranked_offers' = <<>>
            /\ recommended_offers' = <<>>
            /\ tool_constraints_key' = <<>>
            /\ key_in_state' = TRUE
       ELSE UNCHANGED tool_state
    /\ fresh_pipeline' = IF tool_calls_this_turn = 0
                         THEN /\ is_complete(LLMConstraintsDump(constraints))
                              /\ candidates' = <<>> /\ offers' = <<>> /\ ranked_offers' = <<>>
                         ELSE fresh_pipeline
    /\ pc' = "DECISION"
    /\ UNCHANGED <<turn, snapshot, constraints, tool_timeline, tool_calls_this_turn,
                   llm_action, selected_offer_id, assistant_message, agent_state, end_turn,
                   extracted_offer_id, calls, tool_values>>
    /\ resolver_log' = <<>>
    /\ UNCHANGED aux

\* ------------------------------------------- graph.py: Step 2, the decision
Hint(text) == FixedMsg(text, {})

LlmHint == Hint("hint:(message proposed by the decision call)")

\* What the decision call can yield: no schema-valid action in two
\* attempts, a call_tool proposal or a respond proposal.
DecisionOutcomes ==
    {[ok |-> FALSE, type |-> "", tool_name |-> "", kind |-> "", constraints_update |-> <<>>]}
    \cup [ok : {TRUE}, type : {"call_tool"},
          tool_name : {"search_candidates", "get_offers", "rank_offers"},
          kind : {""}, constraints_update : Opt(DecisionUpdates)]
    \cup [ok : {TRUE}, type : {"respond"}, tool_name : {""},
          kind : {"clarify", "explain", "confirm", "generic"},
          constraints_update : Opt(DecisionUpdates)]

\* The canonical next tool of the pipeline, "" when all three have run.
expected_tool ==
    IF candidates = <<>> THEN "search_candidates"
    ELSE IF offers = <<>> THEN "get_offers"
    ELSE IF ranked_offers = <<>> THEN "rank_offers"
    ELSE ""

\* Only the offers already shown count as offer context.
has_offer_context_recommended_only == recommended_offers # <<>>

has_offer_context == recommended_offers # <<>> \/ ranked_offers # <<>> \/ offers # <<>>

\* The routing with the response step skipped: a respond action ends the turn.
route_after_llm_decide_respond_ends(ended, action) ==
    IF ended THEN "END"
    ELSE IF action.type = "call_tool" THEN "CALL_TOOL"
    ELSE "END"

\* _route_after_llm_decide
route_after_llm_decide(ended, action) ==
    IF ended THEN "END"
    ELSE IF action.type = "call_tool" THEN "CALL_TOOL"
    ELSE IF action.type = "respond" THEN "LLM_RESPOND"
    ELSE "END"

\* The guardrail left out of the respond branch: a respond proposal is kept.
GuardedAction_respond_unguarded(d, c) ==
    LET parsed == LLMConstraintsDump(c) IN
    IF d.type = "call_tool"
    THEN IF is_complete(parsed)
         THEN IF expected_tool = ""
              THEN Respond("explain", Hint("hint:Show top offers."))
              ELSE CallToolAction(expected_tool)
         ELSE CallToolAction(d.tool_name)
    ELSE Respond(d.kind, LlmHint)

\* The guardrail on a schema-valid proposal d, after its constraints_update
\* was merged into c: the action that leaves DECIDE.
GuardedAction(d, c) ==
    LET parsed == LLMConstraintsDump(c) IN
    IF d.type = "call_tool"
    THEN IF is_complete(parsed)
         THEN IF expected_tool = ""
              THEN Respond("explain", Hint("hint:Show top offers."))
              ELSE CallToolAction(expected_tool)
         ELSE CallToolAction(d.tool_name)
    ELSE IF is_complete(parsed) /\ expected_tool # ""
         THEN CallToolAction(expected_tool)
         ELSE Respond(d.kind, LlmHint)

llm_decide_decision ==
    /\ pc = "DECISION"
    /\ IF extracted_offer_id # <<>>
       THEN \* No-repricing workflow: an offer_id from EXTRACT is a selection.
            /\ IF has_offer_context
               THEN /\ selected_offer_id' = extracted_offer_id
                    /\ llm_action' = Respond("confirm", Hint("hint:Confirm the selected offer."))
               ELSE /\ selected_offer_id' = selected_offer_id
                    /\ llm_action' = Respond("clarify",
                                             Hint("hint:I don't have that offer loaded in this session."))
            /\ pc' = "LLM_RESPOND"
            /\ UNCHANGED <<constraints, assistant_message, agent_state, end_turn>>
       ELSE \E d \in DecisionOutcomes :
              IF ~d.ok
              THEN /\ llm_action' = Respond("generic", Hint("hint:Model decision failed."))
                   /\ pc' = "LLM_RESPOND"
                   /\ UNCHANGED <<constraints, selected_offer_id, assistant_message,
                                  agent_state, end_turn>>
              ELSE LET merged == merge_constraints_dict(constraints, d.constraints_update)
                       after == LLMConstraintsDump(merged)
                       missing_now == missing_required_fields(after)
                       action == GuardedAction(d, merged)
                       ends == /\ d.type = "respond"
                               /\ action.type = "respond"
                               /\ d.kind = "clarify"
                               /\ missing_now # <<>>
                               /\ constraints = after
                   IN  /\ constraints' = merged
                       /\ llm_action' = action
                       /\ selected_offer_id' = selected_offer_id
                       /\ IF ends
                          THEN /\ assistant_message' = clarify_message(missing_now, after)
                               /\ agent_state' = "COLLECT_CONSTRAINTS"
                               /\ end_turn' = TRUE
                          ELSE UNCHANGED <<assistant_message, agent_state, end_turn>>
                       /\ pc' = route_after_llm_decide(ends, action)
    /\ UNCHANGED <<turn, snapshot, tool_state, tool_timeline, tool_calls_this_turn,
                   extracted_offer_id, prev_key, history>>
    /\ resolver_log' = <<>>
    /\ UNCHANGED aux

\* ------------------------------------------------------ graph.py: CALL_TOOL
max_hotels_priced_per_turn == 20

\* ToolClient.call: the result, or an exception after the retries are used
\* up.  The exception is not caught by the graph or by chat().
ToolOutcomes(results) == [ok : {TRUE}, result : results] \cup {[ok |-> FALSE, result |-> <<>>]}

\* A router that sends every tool result back to the decision node.
route_after_call_tool_always_decide(action) == "EXTRACT"

\* _route_after_call_tool
route_after_call_tool(action) == IF action.type = "respond" THEN "LLM_RESPOND" ELSE "EXTRACT"

\* A call handed to ToolClient.call: the tool, the fingerprint of the
\* constraints the payload is built from, the hotel_ids of the payload.
Issue(tool_name, hotel_ids) ==
    calls' = Append(calls, [tool_name |-> tool_name, key |-> CurKey(constraints),
                            hotel_ids |-> hotel_ids])

OfferMoney(offs) == {offs[i].total_price : i \in 1..Len(offs)}

OfferTs(offs) == {offs[i].expires_ts : i \in 1..Len(offs)}

Learn(offs) ==
    tool_values' = [money |-> tool_values.money \cup OfferMoney(offs),
                    ts |-> tool_values.ts \cup OfferTs(offs)]

ClarifyMissing(parsed) ==
    Respond("clarify", clarify_message(missing_required_fields(parsed), parsed))

\* _call_search_candidates
call_search_candidates(parsed) ==
    IF ~is_complete(parsed)
    THEN /\ llm_action' = ClarifyMissing(parsed)
         /\ pc' = "LLM_RESPOND"
         /\ UNCHANGED <<tool_state, tool_timeline, history>>
    ELSE \E out \in ToolOutcomes(SearchResults) :
           /\ Issue("search_candidates", <<>>)
           /\ UNCHANGED fresh_pipeline
           /\ offers' = <<>>
           /\ ranked_offers' = <<>>
           /\ recommended_offers' = <<>>
           /\ tool_constraints_key' = <<tool_constraints_key_of(parsed)>>
           /\ key_in_state' = TRUE
           /\ UNCHANGED tool_values
           /\ IF out.ok
              THEN /\ tool_timeline' = Append(tool_timeline, "search_candidates")
                   /\ candidates' = out.result
                   /\ llm_action' = IF out.result = <<>>
                                     THEN Respond("generic",
                                                  Hint("hint:No candidate hotels matched these constraints."))
                                     ELSE llm_action
                   /\ pc' = route_after_call_tool(llm_action')
              ELSE /\ pc' = "CRASHED"
                   /\ UNCHANGED <<tool_timeline, candidates, llm_action>>

\* The cap left out: every cached candidate is priced.
call_get_offers_uncapped(parsed) ==
    LET hotel_ids == candidates IN
    IF hotel_ids = <<>> \/ ~Truthy(parsed, "check_in") \/ ~Truthy(parsed, "check_out")
    THEN /\ llm_action' = ClarifyMissing(parsed)
         /\ pc' = "LLM_RESPOND"
         /\ UNCHANGED <<tool_state, tool_timeline, history>>
    ELSE \E out \in ToolOutcomes(OfferResults) :
           /\ Issue("get_offers", [i \in 1..Len(hotel_ids) |-> hotel_ids[i].hotel_id])
           /\ UNCHANGED fresh_pipeline
           /\ UNCHANGED <<candidates, ranked_offers, recommended_offers,
                          tool_constraints_key, key_in_state, llm_action>>
           /\ IF out.ok
              THEN /\ tool_timeline' = Append(tool_timeline, "get_offers")
                   /\ offers' = out.result
                   /\ Learn(out.result)
                   /\ pc' = route_after_call_tool(llm_action)
              ELSE /\ pc' = "CRASHED"
                   /\ UNCHANGED <<tool_timeline, offers, tool_values>>

\* _call_get_offers
call_get_offers(parsed) ==
    LET hotel_ids == Prefix(candidates, max_hotels_priced_per_turn) IN
    IF hotel_ids = <<>> \/ ~Truthy(parsed, "check_in") \/ ~Truthy(parsed, "check_out")
    THEN /\ llm_action' = ClarifyMissing(parsed)
         /\ pc' = "LLM_RESPOND"
         /\ UNCHANGED <<tool_state, tool_timeline, history>>
    ELSE \E out \in ToolOutcomes(OfferResults) :
           /\ Issue("get_offers", [i \in 1..Len(hotel_ids) |-> hotel_ids[i].hotel_id])
           /\ UNCHANGED fresh_pipeline
           /\ UNCHANGED <<candidates, ranked_offers, recommended_offers,
                          tool_constraints_key, key_in_state, llm_action>>
           /\ IF out.ok
              THEN /\ tool_timeline' = Append(tool_timeline, "get_offers")
                   /\ offers' = out.result
                   /\ Learn(out.result)
                   /\ pc' = route_after_call_tool(llm_action)
              ELSE /\ pc' = "CRASHED"
                   /\ UNCHANGED <<tool_timeline, offers, tool_values>>

\* _call_rank_offers
call_rank_offers ==
    IF offers = <<>>
    THEN /\ llm_action' = Respond("generic", Hint("hint:No offers available to rank."))
         /\ pc' = "LLM_RESPOND"
         /\ UNCHANGED <<tool_state, tool_timeline, history>>
    ELSE \E out \in ToolOutcomes(RankResults(offers)) :
           /\ Issue("rank_offers", <<>>)
           /\ UNCHANGED fresh_pipeline
           /\ UNCHANGED <<candidates, offers, recommended_offers, tool_constraints_key,
                          key_in_state, tool_values>>
           /\ IF out.ok
              THEN /\ tool_timeline' = Append(tool_timeline, "rank_offers")
                   /\ ranked_offers' = out.result
                   /\ llm_action' = Respond("explain", Hint("hint:Show top offers."))
                   /\ pc' = route_after_call_tool(llm_action')
              ELSE /\ pc' = "CRASHED"
                   /\ UNCHANGED <<tool_timeline, ranked_offers, llm_action>>

\* Off by one: the budget check lets one more call through.
budget_reached_off_by_one == tool_calls_this_turn > max_tool_calls_per_turn

\* The tool-call budget of _call_tool.
budget_reached == tool_calls_this_turn >= max_tool_calls_per_turn

\* _call_tool
call_tool ==
    /\ pc = "CALL_TOOL"
    /\ agent_state' = "CALL_TOOL"
    /\ IF budget_reached
       THEN /\ llm_action' = Respond("generic", Hint("hint:Tool call limit reached for this turn."))
            /\ pc' = "LLM_RESPOND"
            /\ UNCHANGED <<tool_state, tool_timeline, tool_calls_this_turn, history>>
       ELSE /\ tool_calls_this_turn' = tool_calls_this_turn + 1
            /\ LET parsed == LLMConstraintsDump(constraints) IN
               CASE llm_action.tool_name = "search_candidates" -> call_search_candidates(parsed)
                 [] llm_action.tool_name = "get_offers" -> call_get_offers(parsed)
                 [] llm_action.tool_name = "rank_offers" -> call_rank_offers
    /\ UNCHANGED <<turn, snapshot, constraints, selected_offer_id, assistant_message,
                   end_turn, extracted_offer_id, prev_key>>
    /\ resolver_log' = <<>>
    /\ UNCHANGED aux

\* ---------------------------------------------------- graph.py: LLM_RESPOND
HotelIds(cands) == {cands[i].hotel_id : i \in 1..Len(cands)}

HotelOf(cands, hid) ==
    cands[CHOOSE i \in 1..Len(cands) :
            cands[i].hotel_id = hid /\ \A j \in 1..(i - 1) : cands[j].hotel_id # hid]

\* An offer decorated with the fields of its candidate hotel: {**offer,
\* "hotel_name": h.get("name", "Unknown hotel"), "star_rating": h.get(...)}.
Card(offer, cands) ==
    IF offer.hotel_id \in HotelIds(cands)
    THEN ("hotel_name" :> HotelOf(cands, offer.hotel_id).name)
         @@ ("star_rating" :> HotelOf(cands, offer.hotel_id).star_rating) @@ offer
    ELSE ("hotel_name" :> "Unknown hotel") @@ offer

\* _build_offer_cards: the min_star filter, the top three, the cards.
build_offer_cards ==
    LET ranked == IF "min_star" \in DOMAIN constraints
                  THEN SelectSeqBy(ranked_offers,
                                   {h \in HotelIds(candidates) :
                                      HotelOf(candidates, h).star_rating >= constraints["min_star"]})
                  ELSE ranked_offers
        top == Prefix(ranked, TopN)
    IN  [i \in 1..Len(top) |-> Card(top[i].offer, candidates)]

RECURSIVE FirstWithOfferId(_, _)
FirstWithOfferId(list, id) ==
    IF list = <<>> THEN <<>>
    ELSE IF Head(list).offer_id = id THEN <<Head(list)>>
    ELSE FirstWithOfferId(Tail(list), id)

\* The offer_id comparison left out: the first offer on hand is taken.
find_selected_offer_any(selected, recommended, offs, cands) ==
    IF selected = <<>> THEN <<>>
    ELSE IF recommended # <<>> THEN <<Head(recommended)>>
    ELSE IF offs = <<>> THEN <<>>
    ELSE <<Card(Head(offs), cands)>>

\* find_selected_offer: <<>> (None) or <<record>>.
find_selected_offer(selected, recommended, offs, cands) ==
    IF selected = <<>> THEN <<>>
    ELSE LET rec == FirstWithOfferId(recommended, selected[1])
             target == FirstWithOfferId(offs, selected[1])
         IN  IF rec # <<>> THEN rec
             ELSE IF target = <<>> THEN <<>>
             ELSE <<Card(target[1], cands)>>

\* _render_selected_offer_message / _render_top_offers_message: the
\* deterministic renderers print the cards' prices and timestamps.
render_selected_offer_message(card) ==
    Msg("Selected offer (tool-provided)", {}, {card.total_price}, {card.expires_ts},
        <<card>>, TRUE, TRUE)

render_top_offers_message(cards) ==
    Msg("Top 3 offers (tool-provided)", {}, OfferMoney(cards), OfferTs(cards), <<>>, TRUE, TRUE)

OfferNotFoundMsg ==
    Msg("I couldn't find that offer_id in this session.", {}, {}, {}, <<>>, FALSE, TRUE)

GenError == Msg("(model error)", {}, {}, {}, <<>>, FALSE, FALSE)

\* validate_grounded_response: every monetary and timestamp token of the
\* text is in the allow-sets.
validate_grounded_response(text, allowed_prices, allowed_ts) ==
    text.money \subseteq allowed_prices /\ text.ts \subseteq allowed_ts

\* One pass of the generation loop accepts the text unless the model call
\* failed, grounding failed, or a required hotel_id is missing.
Accepted(text, kind, allowed_prices, allowed_ts) ==
    /\ text # GenError
    /\ (allowed_prices # {} \/ allowed_ts # {})
          => validate_grounded_response(text, allowed_prices, allowed_ts)
    /\ ~(kind = "explain" /\ recommended_offers # <<>> /\ ~text.has_hotel_id)

\* The message the generation loop stores: the first accepted text of at
\* most respond_max_attempts generations, else the fixed fallback.
Generated(gen, kind, allowed_prices, allowed_ts) ==
    LET ok == {i \in 1..respond_max_attempts : Accepted(gen[i], kind, allowed_prices, allowed_ts)}
    IN  IF ok = {}
        THEN FixedMsg("I couldn't produce a valid response. Please retry your last message.",
                      {})
        ELSE gen[CHOOSE i \in ok : \A j \in ok : i <= j]

\* _llm_respond
llm_respond ==
    /\ pc = "LLM_RESPOND"
    /\ LET kind == llm_action.kind IN
       IF kind = "confirm" \/ selected_offer_id # <<>>
       THEN LET selected == find_selected_offer(selected_offer_id, recommended_offers,
                                                offers, candidates)
            IN  /\ IF selected = <<>>
                   THEN /\ assistant_message' = OfferNotFoundMsg
                        /\ agent_state' = "WAIT_FOR_SELECTION"
                   ELSE /\ assistant_message' = render_selected_offer_message(selected[1])
                        /\ agent_state' = "CONFIRM"
                /\ UNCHANGED <<recommended_offers, selected_offer_id>>
       ELSE IF ranked_offers # <<>>
       THEN /\ recommended_offers' = build_offer_cards
            /\ assistant_message' = render_top_offers_message(build_offer_cards)
            /\ agent_state' = "WAIT_FOR_SELECTION"
            /\ UNCHANGED selected_offer_id
       ELSE \E gen \in [1..respond_max_attempts -> (LlmTexts \cup {GenError})] :
              LET msg == Generated(gen, kind, {}, {})
                  presenting == kind = "explain" /\ recommended_offers # <<>>
              IN  /\ assistant_message' =
                        IF presenting /\ ~msg.has_offer_id
                        THEN [msg EXCEPT !.has_offer_id = TRUE]
                        ELSE msg
                  /\ agent_state' = IF presenting THEN "WAIT_FOR_SELECTION"
                                    ELSE IF kind = "confirm" THEN "CONFIRM"
                                    ELSE IF kind = "clarify" THEN "COLLECT_CONSTRAINTS"
                                    ELSE "RESPOND"
                  /\ selected_offer_id' = <<>>
                  /\ UNCHANGED recommended_offers
    /\ pc' = "END"
    /\ UNCHANGED <<turn, snapshot, constraints, candidates, offers, ranked_offers,
                   tool_constraints_key, key_in_state, tool_timeline, tool_calls_this_turn,
                   llm_action, end_turn, extracted_offer_id, prev_key, history>>
    /\ resolver_log' = <<>>
    /\ UNCHANGED aux

\* ------------------------------------------------- main.py: end of /chat
\* chat(), after GRAPH.ainvoke: build the snapshot payload and upsert it.
chat_finish ==
    /\ pc = "END"
    /\ snapshot' = <<[constraints |-> JsonRoundTrip(constraints),
                      candidates |-> candidates,
                      offers |-> offers,
                      ranked_offers |-> ranked_offers,
                      recommended_offers |-> recommended_offers,
                      tool_constraints_key |-> tool_constraints_key]>>
    /\ pc' = "IDLE"
    /\ UNCHANGED <<turn, constraints, tool_state, tool_timeline, tool_calls_this_turn,
                   llm_action, selected_offer_id, assistant_message, agent_state, end_turn,
                   extracted_offer_id, prev_key, history>>
    /\ resolver_log' = <<>>
    /\ UNCHANGED aux

\* The snapshot written on the way out of a failed request.
chat_abort_writing_snapshot ==
    /\ pc \in {"CRASHED", "CONFIG_ERROR"}
    /\ pc' = "IDLE"
    /\ snapshot' = <<[constraints |-> JsonRoundTrip(constraints),
                      candidates |-> candidates,
                      offers |-> offers,
                      ranked_offers |-> ranked_offers,
                      recommended_offers |-> recommended_offers,
                      tool_constraints_key |-> tool_constraints_key]>>
    /\ UNCHANGED <<turn, constraints, tool_state, tool_timeline,
                   tool_calls_this_turn, llm_action, selected_offer_id, assistant_message,
                   agent_state, end_turn, extracted_offer_id, prev_key, history>>
    /\ resolver_log' = <<>>
    /\ UNCHANGED aux

\* An exception leaves GRAPH.ainvoke: that of ToolClient.call leaves chat()
\* too, ModelConfigError becomes HTTP 500.  The request fails and no
\* snapshot is written.
chat_abort ==
    /\ pc \in {"CRASHED", "CONFIG_ERROR"}
    /\ pc' = "IDLE"
    /\ UNCHANGED <<turn, snapshot, constraints, tool_state, tool_timeline,
                   tool_calls_this_turn, llm_action, selected_offer_id, assistant_message,
                   agent_state, end_turn, extracted_offer_id, prev_key, history>>
    /\ resolver_log' = <<>>
    /\ UNCHANGED aux

Next ==
    \/ chat_start
    \/ llm_decide_extract
    \/ llm_decide_date_resolve
    \/ resolve_non_date_fields
    \/ resolve_budget
    \/ resolve_hard_filters_patch
    \/ llm_decide_invalidate
    \/ llm_decide_decision
    \/ call_tool
    \/ llm_respond
    \/ chat_finish
    \/ chat_abort

Spec == Init /\ [][Next]_vars

\* ======================================================================
\* grounding.py: validate_grounded_response on texts of characters
\* ======================================================================
\* Number of tokens or words in one text.
MaxPieces == 2

Digit == <<"0", "1", "2", "3", "4", "5", "6", "7", "8", "9">>

DigitChars == {Digit[i] : i \in 1..10}

Letters ==
    {"a", "b", "c", "d", "e", "f", "g", "h", "i", "j", "k", "l", "m", "n", "o", "p", "q",
     "r", "s", "t", "u", "v", "w", "x", "y", "z", "A", "B", "C", "D", "E", "F", "G", "H",
     "I", "J", "K", "L", "M", "N", "O", "P", "Q", "R", "S", "T", "U", "V", "W", "X", "Y", "Z"}

\* \w of the re module (on ASCII text); DigitChars is its [0-9].
IsWord(c) == c \in DigitChars \cup Letters \cup {"_"}

\* The character at position i, "" outside the text.
At(t, i) == IF i >= 1 /\ i <= Len(t) THEN t[i] ELSE ""

RECURSIVE DigitRun(_, _, _)
\* Number of digits from position i on, at most max (a greedy [0-9]{..max}).
DigitRun(t, i, max) ==
    IF max = 0 \/ At(t, i) \notin DigitChars THEN 0 ELSE 1 + DigitRun(t, i + 1, max - 1)

RECURSIVE GroupsEnd(_, _)
\* (?:,[0-9]{3})* from position j: the position after the last group.
GroupsEnd(t, j) ==
    IF At(t, j) = "," /\ DigitRun(t, j + 1, 3) = 3 THEN GroupsEnd(t, j + 4) ELSE j

\* (?:\.[0-9]{2})? from position j.
DecimalsEnd(t, j) ==
    IF At(t, j) = "." /\ DigitRun(t, j + 1, 2) = 2 THEN j + 3 ELSE j

\* _MONEY_RE matched at position i: 0 (no match) or the position after it.
MoneyMatchEnd(t, i) ==
    IF At(t, i) = "$" /\ ~IsWord(At(t, i - 1)) /\ DigitRun(t, i + 1, 3) >= 1
    THEN DecimalsEnd(t, GroupsEnd(t, i + 1 + DigitRun(t, i + 1, 3)))
    ELSE 0

RECURSIVE MoneyGroups(_, _)
\* _MONEY_RE.finditer(text): group(1) of every match, left to right.
MoneyGroups(t, i) ==
    IF i > Len(t) THEN <<>>
    ELSE LET e == MoneyMatchEnd(t, i)
         IN  IF e = 0 THEN MoneyGroups(t, i + 1)
             ELSE <<SubSeq(t, i + 1, e - 1)>> \o MoneyGroups(t, e)

\* m.group(1).replace(",", "")
RemoveCommas(g) == SelectSeq(g, LAMBDA c : c # ",")

RECURSIVE DigitsOf(_)
DigitsOf(n) ==
    IF n < 10 THEN <<Digit[n + 1]>> ELSE DigitsOf(n \div 10) \o <<Digit[(n % 10) + 1]>>

\* f"{p:.2f}" of a price given in cents.
Format2f(cents) ==
    DigitsOf(cents \div 100) \o <<".">>
        \o <<Digit[((cents % 100) \div 10) + 1], Digit[(cents % 10) + 1]>>

\* (?:Z|[+-]\d{2}:\d{2}) from position f: 0 or the position after it.
ZoneEnd(t, f) ==
    IF At(t, f) = "Z" THEN f + 1
    ELSE IF At(t, f) \in {"+", "-"} /\ DigitRun(t, f + 1, 2) = 2 /\ At(t, f + 3) = ":"
            /\ DigitRun(t, f + 4, 2) = 2
         THEN f + 6
         ELSE 0

\* _ISO_TS_RE matched at position i: 0 (no match) or the position after it.
TsMatchEnd(t, i) ==
    IF /\ ~IsWord(At(t, i - 1))
       /\ DigitRun(t, i, 4) = 4 /\ At(t, i + 4) = "-"
       /\ DigitRun(t, i + 5, 2) = 2 /\ At(t, i + 7) = "-"
       /\ DigitRun(t, i + 8, 2) = 2 /\ At(t, i + 10) = "T"
       /\ DigitRun(t, i + 11, 2) = 2 /\ At(t, i + 13) = ":"
       /\ DigitRun(t, i + 14, 2) = 2 /\ At(t, i + 16) = ":"
       /\ DigitRun(t, i + 17, 2) = 2
    THEN LET frac == DigitRun(t, i + 20, Len(t))
             f == IF At(t, i + 19) = "." /\ frac >= 1 THEN i + 20 + frac ELSE i + 19
             z == ZoneEnd(t, f)
         IN  IF z # 0 /\ ~IsWord(At(t, z)) THEN z ELSE 0
    ELSE 0

RECURSIVE TsGroups(_, _)
\* _ISO_TS_RE.finditer(text): group(1) of every match, left to right.
TsGroups(t, i) ==
    IF i > Len(t) THEN <<>>
    ELSE LET e == TsMatchEnd(t, i)
         IN  IF e = 0 THEN TsGroups(t, i + 1)
             ELSE <<SubSeq(t, i, e - 1)>> \o TsGroups(t, e)

\* A datetime: its date and time of day, its microseconds and its UTC offset
\* as isoformat() prints them (an empty offset is a naive datetime).
Datetime(base, frac, off) == [base |-> base, frac |-> frac, off |-> off]

isoformat(dt) == dt.base \o dt.frac \o dt.off

UtcOffset == <<"+", "0", "0", ":", "0", "0">>

\* allowed_ts_set: every isoformat, and the "Z" form of those ending "+00:00".
allowed_ts_set(allowed_timestamps) ==
    {isoformat(t) : t \in allowed_timestamps}
    \cup {t.base \o t.frac \o <<"Z">> : t \in {u \in allowed_timestamps : u.off = UtcOffset}}

\* validate_grounded_response: TRUE when it returns, FALSE when it raises
\* GroundingViolation.
validate_grounded_response_text(assistant_text, allowed_prices, allowed_timestamps) ==
    LET money == MoneyGroups(assistant_text, 1)
        stamps == TsGroups(assistant_text, 1)
    IN  /\ \A k \in 1..Len(money) :
              RemoveCommas(money[k]) \in {Format2f(p) : p \in allowed_prices}
        /\ \A k \in 1..Len(stamps) : stamps[k] \in allowed_ts_set(allowed_timestamps)

\* ------------------------------------------------- the texts that are tried
Noon == Datetime(<<"2", "0", "2", "6", "-", "0", "2", "-", "1", "5", "T",
                   "1", "2", ":", "0", "0", ":", "0", "0">>, <<>>, UtcOffset)

OneOClock == Datetime(<<"2", "0", "2", "6", "-", "0", "2", "-", "1", "5", "T",
                        "1", "3", ":", "0", "0", ":", "0", "0">>, <<>>, UtcOffset)

NaiveNoon == Datetime(Noon.base, <<>>, <<>>)

RECURSIVE Grouped(_)
\* The digits of n with a thousands separator: 1234 -> 1,234.
Grouped(n) ==
    IF n < 1000 THEN DigitsOf(n)
    ELSE Grouped(n \div 1000) \o <<",">>
           \o <<Digit[((n % 1000) \div 100) + 1], Digit[((n % 100) \div 10) + 1],
                Digit[(n % 10) + 1]>>

Cents2(cents) == <<".", Digit[((cents % 100) \div 10) + 1], Digit[(cents % 10) + 1]>>

Money(cents, style) == [kind |-> "money", style |-> style, cents |-> cents, dt |-> Noon]

Stamp(dt, style) == [kind |-> "ts", style |-> style, cents |-> 0, dt |-> dt]

Pieces ==
    {[kind |-> "word", style |-> "", cents |-> 0, dt |-> Noon]}
    \cup {Money(p, st) : p \in {10000, 12345, 123456}, st \in {"plain", "grouped"}}
    \cup {Money(10000, "whole"), Money(12345, "prefixed")}
    \cup {Stamp(dt, "iso") : dt \in {Noon, OneOClock, NaiveNoon}}
    \cup {Stamp(dt, "Z") : dt \in {Noon, OneOClock}}

\* How a piece is written.
Render(piece) ==
    CASE piece.kind = "word" -> <<"T", "o", "t", "a", "l">>
      [] piece.kind = "money" /\ piece.style = "plain" ->
            <<"$">> \o DigitsOf(piece.cents \div 100) \o Cents2(piece.cents)
      [] piece.kind = "money" /\ piece.style = "grouped" ->
            <<"$">> \o Grouped(piece.cents \div 100) \o Cents2(piece.cents)
      [] piece.kind = "money" /\ piece.style = "whole" ->
            <<"$">> \o DigitsOf(piece.cents \div 100)
      [] piece.kind = "money" /\ piece.style = "prefixed" ->
            <<"U", "S", "$">> \o DigitsOf(piece.cents \div 100) \o Cents2(piece.cents)
      [] piece.kind = "ts" /\ piece.style = "iso" -> isoformat(piece.dt)
      [] piece.kind = "ts" /\ piece.style = "Z" -> piece.dt.base \o piece.dt.frac \o <<"Z">>

RECURSIVE TextOf(_)
\* The pieces written one after the other, a blank between them.
TextOf(pieces) ==
    IF pieces = <<>> THEN <<>>
    ELSE IF Len(pieces) = 1 THEN Render(pieces[1])
    ELSE Render(Head(pieces)) \o <<" ">> \o TextOf(Tail(pieces))

GroundingInit ==
    /\ GraphInit
    /\ fingerprints = <<>>
    /\ tool_client = <<>>
    /\ helper = <<>>
    /\ grounding \in {<<[pieces |-> ps, allowed_prices |-> ap, allowed_timestamps |-> at,
                        returned |-> "pending"]>> :
                          ps \in UNION {[1..n -> Pieces] : n \in 1..MaxPieces},
                          ap \in {{}, {12345}, {10000, 123456}},
                          at \in {{}, {Noon}, {OneOClock, NaiveNoon}}}

\* One call validate_grounded_response(text, allowed_prices, allowed_timestamps).
validate_call ==
    /\ grounding # <<>>
    /\ grounding[1].returned = "pending"
    /\ grounding' =
         <<[grounding[1] EXCEPT !.returned =
              IF validate_grounded_response_text(TextOf(grounding[1].pieces),
                                                 grounding[1].allowed_prices,
                                                 grounding[1].allowed_timestamps)
              THEN "ok" ELSE "GroundingViolation"]>>
    /\ UNCHANGED <<graph_vars, fingerprints, tool_client, helper>>

GroundingSpec == GroundingInit /\ [][validate_call]_vars

\* ======================================================================
\* graph.py: _tool_constraints_key on dicts with key order, lists and dates
\* ======================================================================
\* A Python value: its type, and the field of that type that holds it.
Value(t, s, n, l) == [t |-> t, s |-> s, n |-> n, l |-> l]

StrV(s) == Value("str", s, 0, <<>>)

IntV(n) == Value("int", "", n, <<>>)

ListV(l) == Value("list", "", 0, l)

\* datetime.date(y, m, d), held as the number yyyymmdd.
DateV(ymd) == Value("date", "", ymd, <<>>)

\* An ISO date string, held as its characters.
IsoStrV(chars) == Value("isostr", "", 0, chars)

TwoDigits(n) == <<Digit[(n \div 10) + 1], Digit[(n % 10) + 1]>>

\* date.isoformat(): YYYY-MM-DD (years of four digits).
date_isoformat(v) ==
    IsoStrV(DigitsOf(v.n \div 10000) \o <<"-">> \o TwoDigits((v.n \div 100) % 100)
              \o <<"-">> \o TwoDigits(v.n % 100))

\* A dict is the sequence of its items in insertion order.
Item(k, v) == [k |-> k, v |-> v]

HasKey(d, k) == \E i \in 1..Len(d) : d[i].k = k

ValueAt(d, k) == d[CHOOSE i \in 1..Len(d) : d[i].k = k].v

\* {k: v for k, v in d.items() if k in tool_constraint_keys}
tool_constraint_subset_items(d) == SelectSeq(d, LAMBDA it : it.k \in tool_constraint_keys)

\* The tool-relevant keys in the order sort_keys=True puts them.
SortedToolKeys ==
    <<"adults", "amenities", "check_in", "check_out", "children", "city", "currency",
      "max_price", "min_star", "refundable_preferred", "rooms">>

\* Alphabetical rank of the amenity names that occur.
AmenityOrder == <<"gym", "pool", "wifi">>

RankOf(a) == CHOOSE i \in 1..Len(AmenityOrder) : AmenityOrder[i] = a

RECURSIVE InsertSorted(_, _)
InsertSorted(a, l) ==
    IF l = <<>> THEN <<a>>
    ELSE IF RankOf(a) <= RankOf(Head(l)) THEN <<a>> \o l
    ELSE <<Head(l)>> \o InsertSorted(a, Tail(l))

RECURSIVE sorted(_)
\* sorted([str(a) for a in amenities])
sorted(l) == IF l = <<>> THEN <<>> ELSE InsertSorted(Head(l), sorted(Tail(l)))

\* The value _tool_constraints_key serialises for one item of the subset.
KeyValue(it) ==
    IF it.k \in DateKeys /\ it.v.t = "date" THEN date_isoformat(it.v)
    ELSE IF it.k = "amenities" /\ it.v.t = "list" THEN ListV(sorted(it.v.l))
    ELSE it.v

\* The dates left as they are given.
tool_constraints_key_json_dates_as_given(cdict) ==
    LET subset == tool_constraint_subset_items(cdict)
        keys == SelectSeq(SortedToolKeys, LAMBDA k : HasKey(subset, k))
    IN  [i \in 1..Len(keys) |->
           Item(keys[i],
                IF keys[i] = "amenities" /\ ValueAt(subset, keys[i]).t = "list"
                THEN ListV(sorted(ValueAt(subset, keys[i]).l))
                ELSE ValueAt(subset, keys[i]))]

\* The min_star filter left out of the fingerprint.
tool_constraints_key_json_without_min_star(cdict) ==
    LET subset == tool_constraint_subset_items(cdict)
        keys == SelectSeq(SortedToolKeys, LAMBDA k : HasKey(subset, k) /\ k # "min_star")
    IN  [i \in 1..Len(keys) |-> KeyValue(Item(keys[i], ValueAt(subset, keys[i]))) ]

\* _tool_constraints_key: json.dumps(subset, sort_keys=True) writes the items
\* in key order; the sequence of (key, value) pairs stands for that string
\* (json.dumps is injective on these values).
tool_constraints_key_json(cdict) ==
    LET subset == tool_constraint_subset_items(cdict)
        keys == SelectSeq(SortedToolKeys, LAMBDA k : HasKey(subset, k))
    IN  [i \in 1..Len(keys) |->
           Item(keys[i], KeyValue(Item(keys[i], ValueAt(subset, keys[i]))))]

\* ---------------------------------------- constraints.py: the tool payloads
\* Constraints(**subset).<field>: <<>> for None.
Field(d, k) == IF HasKey(d, k) THEN <<ValueAt(d, k)>> ELSE <<>>

\* Python truthiness of an optional field.
TruthyV(f) ==
    /\ f # <<>>
    /\ CASE f[1].t \in {"int", "float"} -> f[1].n # 0
         [] f[1].t = "str" -> f[1].s # ""
         [] f[1].t = "list" -> f[1].l # <<>>
         [] f[1].t = "bool" -> f[1].n = 1
         [] OTHER -> TRUE

\* Constraints.hard_filters_payload: only the truthy filters are present; no
\* filter present stands for None.
hard_filters_payload(d) ==
    [max_price |-> IF TruthyV(Field(d, "max_price")) THEN Field(d, "max_price") ELSE <<>>,
     min_star |-> IF TruthyV(Field(d, "min_star")) THEN Field(d, "min_star") ELSE <<>>,
     amenities |-> IF TruthyV(Field(d, "amenities")) THEN Field(d, "amenities") ELSE <<>>,
     refundable_only |-> TruthyV(Field(d, "refundable_preferred"))]

\* self.children or 0
ChildrenOrZero(d) == IF TruthyV(Field(d, "children")) THEN ValueAt(d, "children") ELSE IntV(0)

\* Constraints.currency, "USD" when not given.
CurrencyOf(d) == IF HasKey(d, "currency") THEN ValueAt(d, "currency") ELSE StrV("USD")

\* Constraints.to_tool_payload: the search_candidates payload.
to_tool_payload(d) ==
    [city |-> ValueAt(d, "city"),
     check_in |-> date_isoformat(ValueAt(d, "check_in")),
     check_out |-> date_isoformat(ValueAt(d, "check_out")),
     adults |-> ValueAt(d, "adults"),
     children |-> ChildrenOrZero(d),
     rooms |-> ValueAt(d, "rooms"),
     hard_filters |-> hard_filters_payload(d)]

\* The payload _call_get_offers builds (for the same candidate hotels).
get_offers_payload(d) ==
    [check_in |-> date_isoformat(ValueAt(d, "check_in")),
     check_out |-> date_isoformat(ValueAt(d, "check_out")),
     adults |-> ValueAt(d, "adults"),
     children |-> ChildrenOrZero(d),
     rooms |-> ValueAt(d, "rooms"),
     currency |-> CurrencyOf(d),
     hard_filters |-> hard_filters_payload(d)]

ToolPayloads(d) == [search_candidates |-> to_tool_payload(d), get_offers |-> get_offers_payload(d)]

\* ------------------------------------------ the constraint values compared
Reverse(s) == [i \in 1..Len(s) |-> s[Len(s) + 1 - i]]

OptItem(k, vs) == {<<>>} \cup {<<Item(k, v)>> : v \in vs}

\* Complete constraints for one trip, with the optional fields present or
\* not, the dates as date objects or ISO strings, and a field no tool reads.
ConstraintDicts ==
    LET dates == {<<Item("check_in", DateV(20260310)), Item("check_out", DateV(20260312))>>,
                  <<Item("check_in",
                         IsoStrV(<<"2", "0", "2", "6", "-", "0", "3", "-", "1", "0">>)),
                    Item("check_out",
                         IsoStrV(<<"2", "0", "2", "6", "-", "0", "3", "-", "1", "2">>))>>}
        base == {<<Item("city", StrV("Austin"))>> \o ds
                   \o <<Item("adults", IntV(2)), Item("rooms", IntV(1))>> : ds \in dates}
        forward ==
            {b \o ch \o ms \o am \o cu \o no :
               b \in base,
               ch \in OptItem("children", {IntV(0)}),
               ms \in OptItem("min_star", {Value("float", "", 4, <<>>)}),
               am \in OptItem("amenities", {ListV(<<"wifi", "pool">>), ListV(<<"pool", "wifi">>)}),
               cu \in OptItem("currency", {StrV("USD")}),
               no \in OptItem("notes", {StrV("quiet room")})}
    IN  forward \cup {Reverse(d) : d \in forward}

\* LLMConstraints.model_dump output: date objects, no field outside the schema.
IsParsed(d) ==
    /\ ~HasKey(d, "notes")
    /\ ValueAt(d, "check_in").t = "date"
    /\ ValueAt(d, "check_out").t = "date"

FingerprintInit ==
    /\ GraphInit
    /\ grounding = <<>>
    /\ tool_client = <<>>
    /\ helper = <<>>
    /\ fingerprints \in {<<[a |-> a, b |-> b, key_a |-> <<>>, key_b |-> <<>>,
                           done |-> FALSE]>> : a \in ConstraintDicts, b \in ConstraintDicts}

\* _tool_constraints_key(a) and _tool_constraints_key(b).
fingerprint_pair ==
    /\ fingerprints # <<>>
    /\ ~fingerprints[1].done
    /\ fingerprints' = <<[fingerprints[1] EXCEPT
                            !.key_a = tool_constraints_key_json(fingerprints[1].a),
                            !.key_b = tool_constraints_key_json(fingerprints[1].b),
                            !.done = TRUE]>>
    /\ UNCHANGED <<graph_vars, grounding, tool_client, helper>>

FingerprintSpec == FingerprintInit /\ [][fingerprint_pair]_vars

\* ======================================================================
\* tool_client.py: ToolClient.call
\* ======================================================================
tool_max_retries == 2

\* What one _post_json gives: a response (its status code, and whether its
\* body is JSON) or a transport exception of httpx.
AttemptOutcomes ==
    [kind : {"response"}, status_code : {200, 399, 400, 404, 500}, body_json : BOOLEAN,
     exc : {""}]
    \cup [kind : {"exception"}, status_code : {0}, body_json : {FALSE},
          exc : {"ConnectError", "ReadTimeout"}]

\* The exception raised inside the try block of one attempt: <<>> when the
\* attempt reaches the return.
ExceptionOf(o) ==
    IF o.kind = "exception" THEN <<o.exc>>
    ELSE IF o.status_code >= 400 THEN <<"ToolClientError">>
    ELSE IF ~o.body_json THEN <<"JSONDecodeError">>
    ELSE <<>>

\* The retry test reading <= : one attempt more than the budget.
attempts_remain_off_by_one(attempt) == attempt <= tool_max_retries

\* attempt < SETTINGS.tool_max_retries
attempts_remain(attempt) == attempt < tool_max_retries

\* A call entered: the locals of ToolClient.call before the loop.
ToolClientInit ==
    /\ GraphInit
    /\ grounding = <<>>
    /\ fingerprints = <<>>
    /\ helper = <<>>
    /\ tool_client \in {<<[tool_name |-> tn, attempt |-> 0, retries |-> 0, last_exc |-> <<>>,
                          attempts |-> <<>>, status |-> "running", result |-> <<>>,
                          event |-> <<>>, raised |-> <<>>]>> :
                            tn \in {"search_candidates", "get_offers", "rank_offers"}}

\* One iteration of the loop of ToolClient.call.  The statement after the
\* loop is never reached: the last iteration returns or re-raises.
tool_client_attempt ==
    /\ tool_client # <<>>
    /\ tool_client[1].status = "running"
    /\ tool_client[1].attempt <= tool_max_retries
    /\ \E o \in AttemptOutcomes :
         LET tc == tool_client[1]
             e == ExceptionOf(o)
             made == Append(tc.attempts, o)
         IN  tool_client' =
               IF e = <<>>
               THEN <<[tc EXCEPT !.attempts = made,
                                 !.status = "returned",
                                 !.result = <<[status_code |-> o.status_code]>>,
                                 !.event = <<[tool_name |-> tc.tool_name, status |-> "OK",
                                              retries |-> tc.retries]>>]>>
               ELSE IF attempts_remain(tc.attempt)
               THEN <<[tc EXCEPT !.attempts = made,
                                 !.last_exc = e,
                                 !.retries = tc.retries + 1,
                                 !.attempt = tc.attempt + 1]>>
               ELSE <<[tc EXCEPT !.attempts = made,
                                 !.last_exc = e,
                                 !.status = "raised",
                                 !.raised = e]>>
    /\ UNCHANGED <<graph_vars, grounding, fingerprints, helper>>

ToolClientSpec == ToolClientInit /\ [][tool_client_attempt]_vars

\* ======================================================================
\* Properties
\* ======================================================================
ToolNames(cs) == [i \in 1..Len(cs) |-> cs[i].tool_name]

IsPrefixOf(s, t) == Len(s) <= Len(t) /\ \A i \in 1..Len(s) : s[i] = t[i]

CanonicalOrder == <<"search_candidates", "get_offers", "rank_offers">>

CachesEmpty ==
    candidates = <<>> /\ offers = <<>> /\ ranked_offers = <<>> /\ recommended_offers = <<>>

\* Every path to the end of a turn sets the assistant message and the agent
\* state, so the values stored in the previous snapshot are never seen.
MessageSetEveryTurn == pc = "END" => (assistant_message # NoMsg /\ agent_state # "")

\* C1: in a turn whose first decision step ran with complete constraints and
\* no cached tool result, the tool calls issued are search_candidates, then
\* get_offers, then rank_offers: the calls made so far are always a prefix of
\* that order (nothing reordered, nothing issued twice).
C1_CanonicalOrderOnFreshTurn ==
    fresh_pipeline => IsPrefixOf(ToolNames(calls), CanonicalOrder)

\* C2: within one turn no tool is called twice for the same constraint
\* fingerprint.
C2_NoToolTwicePerFingerprint ==
    \A i, j \in 1..Len(calls) : i # j => calls[i] # calls[j]

BudgetResponse == Respond("generic", Hint("hint:Tool call limit reached for this turn."))

\* C3: at most max_tool_calls_per_turn tool calls are issued in a turn, and
\* a CALL_TOOL step entered with the counter at the budget invokes no tool,
\* replaces the proposal by the guardrail response and goes to RESPOND.
C3_ToolCallBudget ==
    /\ [](Len(calls) <= max_tool_calls_per_turn
          /\ Len(tool_timeline) <= max_tool_calls_per_turn)
    /\ [][(pc = "CALL_TOOL" /\ tool_calls_this_turn >= max_tool_calls_per_turn)
            => (calls' = calls /\ tool_timeline' = tool_timeline
                /\ llm_action' = BudgetResponse /\ pc' = "LLM_RESPOND")]_vars

\* The budget guardrail fired after max_tool_calls_per_turn calls were made.
C3_Witness ==
    /\ pc = "LLM_RESPOND"
    /\ llm_action = BudgetResponse
    /\ Len(calls) = max_tool_calls_per_turn

\* C4: when the decision step runs and the fingerprint that was stored with
\* the cached tool results differs from the fingerprint of the constraints
\* resolved in this turn, the cached candidates, offers, ranked offers and
\* recommended offers are all empty (on every turn and every DECIDE step).
C4_StaleCacheDropped ==
    (pc = "DECISION" /\ prev_key # <<CurKey(constraints)>>) => CachesEmpty

\* A later turn changed the fingerprint of a session that had cached results.
C4_Witness ==
    /\ pc = "DECISION"
    /\ tool_calls_this_turn = 0
    /\ snapshot # <<>>
    /\ snapshot[1].candidates # <<>>
    /\ snapshot[1].recommended_offers # <<>>
    /\ prev_key # <<>>
    /\ prev_key # <<CurKey(constraints)>>
    /\ is_complete(LLMConstraintsDump(constraints))

Parsed == LLMConstraintsDump(constraints)

\* search when there are no candidates, price when there are candidates but
\* no offers, rank when there are offers but no ranked offers.
CanonicalNextTool ==
    CASE candidates = <<>> -> "search_candidates"
      [] candidates # <<>> /\ offers = <<>> -> "get_offers"
      [] candidates # <<>> /\ offers # <<>> /\ ranked_offers = <<>> -> "rank_offers"
      [] OTHER -> ""

DecisionFailedResponse == Respond("generic", Hint("hint:Model decision failed."))

\* The DECIDE step leaves with complete constraints, without an offer
\* selection and without a clarification, while a pipeline tool is due.
ToolDueAfterDecision ==
    /\ pc = "DECISION"
    /\ extracted_offer_id = <<>>
    /\ ~end_turn'
    /\ is_complete(LLMConstraintsDump(constraints'))
    /\ CanonicalNextTool # ""

\* C5 as stated: whenever a DECIDE step that handles no selection and ends in
\* no clarification leaves with complete constraints and a due pipeline
\* tool, the action leaving DECIDE is a call to exactly that tool.
C5_AsStated ==
    [][ToolDueAfterDecision => llm_action' = CallToolAction(CanonicalNextTool)]_vars

\* C5 amended: the same, for DECIDE steps whose decision call returned a
\* schema-valid action (after two invalid answers the step leaves with the
\* generic "model decision failed" response instead).
C5_ForcedCanonicalTool ==
    [][(ToolDueAfterDecision /\ llm_action' # DecisionFailedResponse)
         => llm_action' = CallToolAction(CanonicalNextTool)]_vars

\* The guardrail sent the turn to rank_offers.
C5_Witness ==
    /\ pc = "CALL_TOOL"
    /\ llm_action = CallToolAction("rank_offers")
    /\ is_complete(Parsed)
    /\ offers # <<>>
    /\ ranked_offers = <<>>

\* C6: no tool call is issued while the constraints are incomplete: a
\* CALL_TOOL step entered with incomplete constraints calls no tool and
\* leaves with a clarify response, the tool timeline staying unchanged and no
\* call of the turn having been made with incomplete constraints.
C6_NoToolCallWhileIncomplete ==
    [][(pc = "CALL_TOOL" /\ ~is_complete(Parsed))
         => (calls' = calls /\ tool_timeline' = tool_timeline
             /\ llm_action'.type = "respond" /\ llm_action'.kind = "clarify")]_vars

MissingFieldSet(c) ==
    {f \in {"city", "adults", "rooms"} : ~Truthy(c, f)}
    \cup (IF Truthy(c, "check_in") /\ Truthy(c, "check_out") THEN {} ELSE {"dates"})

\* C7: at the end of a turn in which CALL_TOOL overrode a tool-call proposal
\* because the constraints are incomplete, the assistant message is the
\* fixed clarify template and asks for exactly the missing required fields.
C7_OverrideShowsClarifyTemplate ==
    (pc = "END" /\ tool_calls_this_turn > 0 /\ ~is_complete(Parsed)
       /\ llm_action.type = "respond" /\ llm_action.kind = "clarify")
    => (assistant_message = clarify_message(missing_required_fields(Parsed), Parsed)
        /\ assistant_message.asks = MissingFieldSet(Parsed))

SnapshotHoldsOffers ==
    /\ snapshot # <<>>
    /\ \/ snapshot[1].offers # <<>>
       \/ snapshot[1].ranked_offers # <<>>
       \/ snapshot[1].recommended_offers # <<>>

ConfirmedWithoutTools ==
    /\ llm_action.type = "respond"
    /\ llm_action.kind = "confirm"
    /\ selected_offer_id = extracted_offer_id
    /\ tool_timeline = <<>>
    /\ calls = <<>>

\* C8 as stated: a turn in which EXTRACT yields an offer id while the
\* session (the snapshot the turn started from) holds offers, ranked offers
\* or recommended offers ends with a confirm response and no tool call.
C8_AsStated ==
    (pc = "END" /\ extracted_offer_id # <<>> /\ SnapshotHoldsOffers) => ConfirmedWithoutTools

\* C8 amended: a turn in which EXTRACT yields an offer id and that reaches the
\* decision step with offers, ranked offers or recommended offers still held
\* (no resolver question ended the turn, the fingerprint check kept the
\* cache) goes to a confirm response and issues no tool call.
C8_SelectionConfirmsWithoutTools ==
    (pc \in {"LLM_RESPOND", "END"} /\ extracted_offer_id # <<>> /\ ~end_turn
       /\ (offers # <<>> \/ ranked_offers # <<>> \/ recommended_offers # <<>>))
    => ConfirmedWithoutTools

\* A selection turn on a session that holds offers but recommends none.
C8_Witness ==
    /\ pc = "END"
    /\ extracted_offer_id # <<>>
    /\ offers # <<>>
    /\ recommended_offers = <<>>
    /\ ConfirmedWithoutTools

MatchesIn(list) ==
    {i \in 1..Len(list) : selected_offer_id # <<>> /\ list[i].offer_id = selected_offer_id[1]}

First(S) == CHOOSE i \in S : \A j \in S : i <= j

\* C9: a turn ends in CONFIRM only if the selected offer id is the offer_id of
\* a record in recommended_offers or offers, and the record confirmed is that
\* record (the recommended one when both match, else the offer with all its
\* tool-provided fields); when a confirmation is asked for and no such record
\* exists, nothing is confirmed and the user is asked to select again.
C9_ConfirmOnlyToolProvidedOffer ==
    pc = "END" =>
      /\ agent_state = "CONFIRM" =>
            /\ assistant_message.offer # <<>>
            /\ \/ /\ MatchesIn(recommended_offers) # {}
                  /\ assistant_message.offer[1]
                        = recommended_offers[First(MatchesIn(recommended_offers))]
               \/ /\ MatchesIn(recommended_offers) = {}
                  /\ MatchesIn(offers) # {}
                  /\ Restrict(assistant_message.offer[1], DOMAIN O1)
                        = offers[First(MatchesIn(offers))]
      /\ ( /\ ~end_turn
           /\ llm_action.type = "respond"
           /\ llm_action.kind = "confirm"
           /\ MatchesIn(recommended_offers) = {}
           /\ MatchesIn(offers) = {} )
         => (agent_state = "WAIT_FOR_SELECTION" /\ assistant_message = OfferNotFoundMsg)

\* A selected offer that is among the recommended offers was confirmed while
\* another record precedes it in the list.
C9_Witness ==
    /\ pc = "END"
    /\ agent_state = "CONFIRM"
    /\ MatchesIn(recommended_offers) # {}
    /\ First(MatchesIn(recommended_offers)) > 1

\* C10: the assistant message returned at the end of a turn contains no
\* monetary amount and no timestamp that no tool call of the session returned.
C10_MessageGrounded ==
    pc = "END" =>
      /\ assistant_message.money \subseteq tool_values.money
      /\ assistant_message.ts \subseteq tool_values.ts

\* C11: text that fails grounding validation against the values the tools
\* returned is never stored by the response step: the message a response
\* step stores is either generated text that passes validation or a fixed
\* message (after three failed generations, the fixed fallback).
C11_UngroundedTextNeverStored ==
    [][(pc = "LLM_RESPOND" /\ assistant_message'.tmpl = "llm_text")
         => validate_grounded_response(assistant_message', tool_values.money,
                                       tool_values.ts)]_vars

\* The value a piece of text states is in the allow-sets.
ValueAllowed(piece, g) ==
    CASE piece.kind = "money" -> piece.cents \in g.allowed_prices
      [] piece.kind = "ts" -> piece.dt \in g.allowed_timestamps
      [] OTHER -> TRUE

\* C12 as stated: validate_grounded_response raises exactly for the texts
\* in which some amount of money or timestamp has a value that is not in the
\* allow-sets, and returns for every text whose amounts and timestamps all
\* have values in the allow-sets.
C12_AsStated ==
    (grounding # <<>> /\ grounding[1].returned # "pending")
    => (grounding[1].returned = "ok"
          <=> \A i \in 1..Len(grounding[1].pieces) :
                 ValueAllowed(grounding[1].pieces[i], grounding[1]))

\* The pieces the validator reads as tokens: a '$' amount not directly
\* preceded by a word character, a timestamp that carries a zone suffix.
ReadAsToken(piece) ==
    CASE piece.kind = "money" -> piece.style # "prefixed"
      [] piece.kind = "ts" -> piece.style = "Z" \/ piece.dt.off # <<>>
      [] OTHER -> FALSE

\* The piece is written the way an allowed value is printed: an allowed
\* amount with two decimals, at most three integer digits or thousands
\* separators; an allowed timestamp in isoformat or, for UTC, with "Z".
WrittenAsAllowed(piece, g) ==
    CASE piece.kind = "money" ->
            /\ piece.cents \in g.allowed_prices
            /\ \/ piece.style = "grouped"
               \/ piece.style = "plain" /\ piece.cents < 100000
      [] piece.kind = "ts" ->
            /\ piece.dt \in g.allowed_timestamps
            /\ piece.style = "Z" => piece.dt.off = UtcOffset
      [] OTHER -> TRUE

\* What the validator decides (not C12): it returns exactly for the texts in
\* which every token it reads is written as an allowed value is printed
\* (exact string match after removing thousands separators, "Z" standing for
\* "+00:00"), and raises GroundingViolation for every other text.
StringMatchAfterNormalising ==
    (grounding # <<>> /\ grounding[1].returned # "pending")
    => (grounding[1].returned = "ok"
          <=> \A i \in 1..Len(grounding[1].pieces) :
                 ReadAsToken(grounding[1].pieces[i])
                   => WrittenAsAllowed(grounding[1].pieces[i], grounding[1]))

\* A text with an allowed amount written with a thousands separator and an
\* allowed "+00:00" timestamp written with "Z" was accepted.
GroupedAndZAccepted ==
    /\ grounding # <<>>
    /\ grounding[1].returned = "ok"
    /\ grounding[1].pieces = <<Money(123456, "grouped"), Stamp(OneOClock, "Z")>>

DigitValue(c) == CHOOSE n \in 0..9 : Digit[n + 1] = c

\* The day a date value names, as the number yyyymmdd, whether it is a date
\* object or the characters YYYY-MM-DD.
DayNamed(v) ==
    IF v.t = "date" THEN v.n
    ELSE LET c == v.l
         IN  (DigitValue(c[1]) * 1000 + DigitValue(c[2]) * 100 + DigitValue(c[3]) * 10
                + DigitValue(c[4])) * 10000
             + (DigitValue(c[6]) * 10 + DigitValue(c[7])) * 100
             + DigitValue(c[9]) * 10 + DigitValue(c[10])

\* What a constraint value says to the tools: its tool-relevant fields, the
\* dates as days, the amenities as a set, whatever the order of the keys.
ToolRelevantContent(d) ==
    [k \in {x \in tool_constraint_keys : HasKey(d, x)} |->
       IF k \in DateKeys THEN [t |-> "day", n |-> DayNamed(ValueAt(d, k)), set |-> {}]
       ELSE IF k = "amenities"
            THEN [t |-> "set", n |-> Len(ValueAt(d, k).l),
                  set |-> {ValueAt(d, k).l[i] : i \in 1..Len(ValueAt(d, k).l)}]
            ELSE [t |-> ValueAt(d, k).t, n |-> ValueAt(d, k).n, set |-> {ValueAt(d, k).s}]]

\* C13: two constraint values that differ only in fields outside the
\* tool-relevant allowlist, in the order of the amenities list, in key order
\* or in date representation have equal fingerprints.
C13_FingerprintStable ==
    (fingerprints # <<>> /\ fingerprints[1].done
       /\ ToolRelevantContent(fingerprints[1].a) = ToolRelevantContent(fingerprints[1].b))
    => fingerprints[1].key_a = fingerprints[1].key_b

\* Two values that differ in all four ways were given equal fingerprints.
C13_Witness ==
    /\ fingerprints # <<>>
    /\ fingerprints[1].done
    /\ fingerprints[1].key_a = fingerprints[1].key_b
    /\ fingerprints[1].a[1].k # fingerprints[1].b[1].k
    /\ HasKey(fingerprints[1].a, "notes") /\ ~HasKey(fingerprints[1].b, "notes")
    /\ ValueAt(fingerprints[1].a, "check_in").t = "date"
    /\ ValueAt(fingerprints[1].b, "check_in").t = "isostr"
    /\ HasKey(fingerprints[1].a, "amenities")
    /\ ValueAt(fingerprints[1].a, "amenities") # ValueAt(fingerprints[1].b, "amenities")

BothParsed ==
    /\ fingerprints # <<>>
    /\ fingerprints[1].done
    /\ IsParsed(fingerprints[1].a)
    /\ IsParsed(fingerprints[1].b)

\* C14 as stated: two constraint values have equal fingerprints if and only
\* if they produce the same search_candidates and get_offers payloads.
C14_AsStated ==
    BothParsed => (fingerprints[1].key_a = fingerprints[1].key_b
                     <=> ToolPayloads(fingerprints[1].a) = ToolPayloads(fingerprints[1].b))

\* The amenities of a hard_filters payload as a set.
AmenitySet(hf) ==
    IF hf.amenities = <<>> THEN {}
    ELSE {hf.amenities[1].l[i] : i \in 1..Len(hf.amenities[1].l)}

\* The two payloads with the order of the amenities list put aside.
PayloadsUpToAmenityOrder(d) ==
    LET p == ToolPayloads(d)
    IN  [search_candidates |-> [p.search_candidates EXCEPT !.hard_filters.amenities = <<>>],
         get_offers |-> [p.get_offers EXCEPT !.hard_filters.amenities = <<>>],
         amenities |-> AmenitySet(p.search_candidates.hard_filters)]

\* C14 amended: two constraint values with equal fingerprints produce the
\* same search_candidates and get_offers payloads, up to the order of the
\* amenities list (the converse does not hold).
C14_EqualFingerprintsSamePayloads ==
    (BothParsed /\ fingerprints[1].key_a = fingerprints[1].key_b)
    => PayloadsUpToAmenityOrder(fingerprints[1].a) = PayloadsUpToAmenityOrder(fingerprints[1].b)

\* Two different values with a min_star filter have equal fingerprints.
C14_Witness ==
    /\ BothParsed
    /\ fingerprints[1].a # fingerprints[1].b
    /\ HasKey(fingerprints[1].a, "min_star")
    /\ fingerprints[1].key_a = fingerprints[1].key_b

\* ---------------------------------------------------------------- C15
\* The resolvers whose needs_clarification ends the turn.
BlockingStages == {"DATE", "CITY", "OCCUPANCY"}

AskedAt(log) ==
    {i \in 1..Len(log) : log[i].outcome = "asked" /\ log[i].stage \in BlockingStages}

\* C15: when the DATE, CITY or OCCUPANCY resolver reports needs-clarification,
\* the step that ran it ends the turn in COLLECT_CONSTRAINTS: the asking
\* stage is the last resolver stage run, no decision was taken and no tool
\* was called; the only step that follows closes the request and leaves the
\* message, the state, the decision and the tool calls as they are.
C15_ClarificationEndsTurn ==
    [][ /\ AskedAt(resolver_log') # {}
           => /\ pc' = "END"
              /\ agent_state' = "COLLECT_CONSTRAINTS"
              /\ AskedAt(resolver_log') = {Len(resolver_log')}
              /\ llm_action' = NoAction
              /\ calls' = <<>>
              /\ tool_timeline' = <<>>
              /\ tool_calls_this_turn' = 0
        /\ AskedAt(resolver_log) # {}
           => /\ pc' = "IDLE"
              /\ snapshot' # <<>>
              /\ UNCHANGED <<assistant_message, agent_state, llm_action, calls,
                             tool_timeline, tool_calls_this_turn>> ]_vars

\* The OCCUPANCY resolver asked, after the CITY resolver ran, in a session
\* that holds a snapshot; the turn has ended.
C15_Witness ==
    /\ pc = "END"
    /\ snapshot # <<>>
    /\ Len(resolver_log) = 2
    /\ resolver_log[1].stage = "CITY"
    /\ resolver_log[2].stage = "OCCUPANCY"
    /\ resolver_log[2].outcome = "asked"

\* ---------------------------------------------------------------- C16
\* The question of a log entry is a non-blank text.
HasQuestion(e) == e.question # <<>> /\ e.question[1].body # <<>>

\* C16, as stated: when the DATE, CITY or OCCUPANCY resolver sets
\* needs_clarification with a question, the assistant message of the turn is
\* that question (read here up to surrounding whitespace).
C16_AsStated ==
    \A i \in AskedAt(resolver_log) :
        HasQuestion(resolver_log[i])
            => assistant_message = resolver_log[i].question[1].body[1]

\* C16, amended: the DATE resolver's question is the assistant message, with
\* surrounding whitespace removed, and the default date question stands in
\* for a missing or blank one; the questions of the CITY and OCCUPANCY
\* resolvers are discarded and the message is the fixed clarification
\* template for the fields that are missing.
C16_ClarificationMessage ==
    \A i \in AskedAt(resolver_log) :
        LET e == resolver_log[i] IN
        /\ e.stage = "DATE"
           => assistant_message =
                IF HasQuestion(e) THEN e.question[1].body[1]
                ELSE FixedMsg("clarify:What dates should I use? (YYYY-MM-DD to YYYY-MM-DD)",
                              {"dates"})
        /\ e.stage = "CITY"
           => assistant_message = FixedMsg("clarify:Which city should I search in?", {"city"})
        /\ e.stage = "OCCUPANCY"
           => /\ assistant_message.tmpl # "llm_text"
              /\ assistant_message.asks = {k \in {"adults", "rooms"} : ~Truthy(constraints, k)}
              /\ assistant_message.asks # {}

\* The DATE resolver asked, in the second turn of a session, with a question
\* surrounded by whitespace; the turn has ended with the question as message.
C16_Witness ==
    /\ pc = "END"
    /\ turn = 2
    /\ AskedAt(resolver_log) = {1}
    /\ resolver_log[1].stage = "DATE"
    /\ HasQuestion(resolver_log[1])
    /\ resolver_log[1].question[1].padded
    /\ assistant_message.tmpl = "llm_text"

\* ---------------------------------------------------------------- C17
\* The position of the graph after each step of the resolver prelude.
StageAfter(p) ==
    CASE p = "EXTRACT" -> "DATE_RESOLVE"
      [] p = "DATE_RESOLVE" -> "RESOLVE_NON_DATE"
      [] p = "RESOLVE_NON_DATE" -> "RESOLVE_BUDGET"
      [] p = "RESOLVE_BUDGET" -> "RESOLVE_HARD_FILTERS"
      [] p = "RESOLVE_HARD_FILTERS" -> "INVALIDATE"
      [] OTHER -> "none"

\* C17: a resolver stage with no schema-valid result in any attempt leaves
\* the constraints exactly as the stage found them, and the turn goes on:
\* either the next stage of the same step ran, or the graph stands at the
\* next stage.
C17_FailSoft ==
    [][ \A i \in 1..Len(resolver_log') :
          resolver_log'[i].outcome = "failed"
            => /\ resolver_log'[i].after =
                    (IF i = 1 THEN constraints ELSE resolver_log'[i - 1].after)
               /\ \/ i < Len(resolver_log')
                  \/ pc' = StageAfter(pc)
               /\ pc' # "CRASHED" ]_vars

\* The BUDGET resolver failed on constraints that hold the required fields.
C17_Witness ==
    /\ pc = "RESOLVE_HARD_FILTERS"
    /\ Len(resolver_log) = 1
    /\ resolver_log[1].stage = "BUDGET"
    /\ resolver_log[1].outcome = "failed"
    /\ missing_required_fields(constraints) = <<>>

\* ---------------------------------------------------------------- C18
\* An attempt failed: an HTTP status of 400 or more, a transport exception,
\* or a body that is not JSON.
AttemptFailed(o) == o.kind = "exception" \/ o.status_code >= 400 \/ ~o.body_json

AllFailed(as) == \A i \in 1..Len(as) : AttemptFailed(as[i])

\* C18: ToolClient.call makes at most tool_max_retries + 1 attempts; a failed
\* attempt is followed by another one while attempts remain, so the call
\* gives up only after tool_max_retries + 1 failures; it returns at the first
\* attempt that succeeds, with event.retries the number of failed attempts
\* before it.
C18_BoundedRetries ==
    tool_client # <<>> =>
        LET tc == tool_client[1]
            n == Len(tc.attempts)
        IN  /\ n <= tool_max_retries + 1
            /\ tc.status = "running" => AllFailed(tc.attempts) /\ n <= tool_max_retries
            /\ tc.status = "raised" => AllFailed(tc.attempts) /\ n = tool_max_retries + 1
            /\ tc.status = "returned"
               => /\ n >= 1
                  /\ ~AttemptFailed(tc.attempts[n])
                  /\ AllFailed(SubSeq(tc.attempts, 1, n - 1))
                  /\ tc.event # <<>>
                  /\ tc.event[1].retries = n - 1
                  /\ tc.result # <<>>

\* A call returned at its third attempt, after an HTTP error status and a
\* transport exception.
C18_Witness ==
    /\ tool_client # <<>>
    /\ tool_client[1].status = "returned"
    /\ tool_client[1].event[1].retries = tool_max_retries
    /\ tool_client[1].attempts[1].kind = "response"
    /\ tool_client[1].attempts[1].status_code >= 400
    /\ tool_client[1].attempts[2].kind = "exception"

\* ---------------------------------------------------------------- C19
\* The failures the claim names: an HTTP error status or a transport exception.
NamedFailure(o) == o.kind = "exception" \/ o.status_code >= 400

\* C19: after tool_max_retries + 1 attempts that failed with an HTTP error
\* status or a transport exception, ToolClient.call raises ToolClientError,
\* whichever of the two the failures were, and returns no result.
C19_RaisesToolClientError ==
    (tool_client # <<>>
       /\ Len(tool_client[1].attempts) = tool_max_retries + 1
       /\ \A i \in 1..(tool_max_retries + 1) : NamedFailure(tool_client[1].attempts[i]))
        => /\ tool_client[1].status = "raised"
           /\ tool_client[1].raised = <<"ToolClientError">>
           /\ tool_client[1].result = <<>>

\* ---------------------------------------------------------------- C20
\* C20: a tool call that fails after its retries does not crash the turn:
\* the graph goes on from CALL_TOOL, and every request that closes has set an
\* assistant message and written the snapshot.
C20_ToolFailureEndsWithMessage ==
    [][ /\ pc = "CALL_TOOL" => pc' \in {"EXTRACT", "LLM_RESPOND"}
        /\ (pc # "IDLE" /\ pc' = "IDLE")
           => /\ pc = "END"
              /\ assistant_message' # NoMsg
              /\ snapshot' # <<>> ]_vars

\* ---------------------------------------------------------------- C21
\* C21: a turn whose tool call failed after its retries leaves the persisted
\* session as it was before the turn: the snapshot (constraints, cached
\* candidates, offers and ranked offers, fingerprint, turn history) is
\* written only by the step that closes a completed turn, and the step that
\* follows the failure writes nothing.
C21_FailedTurnLeavesSnapshot ==
    [][ /\ snapshot' # snapshot => pc = "END"
        /\ pc = "CRASHED" => pc' = "IDLE" /\ snapshot' = snapshot ]_vars

\* A request has failed in a tool call (a call without its event) after the
\* turn had emptied the offers in memory; the snapshot still holds them.
C21_Witness ==
    /\ pc = "IDLE"
    /\ snapshot # <<>>
    /\ Len(calls) > Len(tool_timeline)
    /\ snapshot[1].offers # <<>>
    /\ offers = <<>>

\* ---------------------------------------------------------------- C22
\* C22: with the credential of the model missing the turn fails at once
\* with the hard error: it is raised at the turn's first entry of the
\* decision node, before any resolver, decision or tool call, nothing is
\* retried, and the request ends without writing the snapshot.
C22_MissingCredentialFailsFast ==
    [][ /\ pc' = "CONFIG_ERROR"
           => /\ pc = "EXTRACT"
              /\ resolver_log' = <<>>
              /\ llm_action' = NoAction
              /\ calls' = <<>>
              /\ tool_timeline' = <<>>
              /\ tool_calls_this_turn' = 0
              /\ snapshot' = snapshot
        /\ pc = "CONFIG_ERROR"
           => /\ pc' = "IDLE"
              /\ snapshot' = snapshot
              /\ UNCHANGED <<resolver_log, llm_action, calls, tool_timeline,
                             tool_calls_this_turn, constraints>> ]_vars

\* The credential is found missing in the second turn of a session whose
\* snapshot holds offers.
C22_Witness ==
    /\ pc = "CONFIG_ERROR"
    /\ turn = 2
    /\ snapshot # <<>>
    /\ snapshot[1].offers # <<>>

\* ---------------------------------------------------------------- C23
\* C23: a turn starts with the tool-call counter at 0 and the tool timeline
\* empty, whatever the last turn left; within the turn the counter never
\* decreases and the timeline only gets events appended; so the timeline
\* holds only calls of this turn, and no more events than the counter says.
C23_PerTurnCounters ==
    [][ /\ (pc = "IDLE" /\ pc' # "IDLE")
           => tool_calls_this_turn' = 0 /\ tool_timeline' = <<>>
        /\ pc # "IDLE"
           => /\ tool_calls_this_turn' >= tool_calls_this_turn
              /\ IsPrefixOf(tool_timeline, tool_timeline')
        /\ IsPrefixOf(tool_timeline', ToolNames(calls'))
        /\ Len(tool_timeline') <= tool_calls_this_turn' ]_vars

\* The second turn of a session starts after a turn that called two tools.
C23_Witness ==
    /\ pc = "EXTRACT"
    /\ turn = 2
    /\ tool_calls_this_turn = 0
    /\ tool_timeline = <<>>
    /\ snapshot # <<>>
    /\ snapshot[1].offers # <<>>

\* ------------------------------------------- the graph helpers, one call
MaxLen == 5

\* extract_first_json_object over a text given as its characters: the value
\* returned, or the message of the ValueError raised.
extract_first_json_object(text) ==
    LET inner == {i \in 1..Len(text) : text[i] # " "}
        s == IF inner = {} THEN <<>>
             ELSE SubSeq(text, CHOOSE i \in inner : \A j \in inner : i <= j,
                               CHOOSE i \in inner : \A j \in inner : i >= j)
        opens == {i \in 1..Len(s) : s[i] = "{"}
        start == CHOOSE i \in opens : \A j \in opens : i <= j
        depth(i) == Cardinality({j \in start..i : s[j] = "{"})
                    - Cardinality({j \in start..i : s[j] = "}"})
        closes == {i \in start..Len(s) : depth(i) = 0}
    IN  IF s # <<>> /\ s[1] = "{" /\ s[Len(s)] = "}"
        THEN [raised |-> <<>>, value |-> s]
        ELSE IF opens = {}
        THEN [raised |-> <<"No JSON object found in model output.">>, value |-> <<>>]
        ELSE IF closes = {}
        THEN [raised |-> <<"Unterminated JSON object in model output.">>, value |-> <<>>]
        ELSE [raised |-> <<>>,
              value |-> SubSeq(s, start, CHOOSE i \in closes : \A j \in closes : i <= j)]

\* Steps 1 to 1e of _llm_decide as one function of the constraints the turn
\* starts with, of the answer o.<stage> each stage gets when it is invoked,
\* and of whether tool results are held: the constraints the steps leave,
\* and whether a blocking stage ended the turn with a question.
resolution_pipeline(c, o, tools_held) ==
    LET c0 == IF o.extract.ok THEN merge_constraints_dict(c, o.extract.constraints_update)
              ELSE c
        dr == IF InSeq("dates", missing_required_fields(c0)) THEN o.date
              ELSE [ok |-> FALSE, needs_clarification |-> FALSE, question |-> <<>>,
                    dates |-> <<>>]
        c1 == IF dr.ok THEN merge_constraints_dict(c0, dr.dates) ELSE c0
        cr == IF ~Truthy(c1, "city") THEN o.city ELSE ResolverFailed
        c2 == Resolved(c1, cr)
        ocr == IF ~Truthy(c2, "adults") \/ ~Truthy(c2, "rooms") THEN o.occupancy
               ELSE ResolverFailed
        c3 == Resolved(c2, ocr)
        ar == IF "refundable_preferred" \notin DOMAIN c3 /\ tools_held THEN o.amenities
              ELSE ResolverFailed
        c4 == IF Asked(ar) THEN c3 ELSE Resolved(c3, ar)
        c5 == Resolved(c4, IF ~Truthy(c4, "max_price") THEN o.budget ELSE ResolverFailed)
        c6 == IF o.patch.ok
              THEN merge_constraints_dict(Without(c5, o.patch.clear), o.patch.set)
              ELSE c5
    IN  IF Asked(dr) THEN [asked |-> TRUE, constraints |-> c0]
        ELSE IF Asked(cr) THEN [asked |-> TRUE, constraints |-> c1]
        ELSE IF Asked(ocr) THEN [asked |-> TRUE, constraints |-> c2]
        ELSE [asked |-> FALSE, constraints |-> c6]

\* A helper is about to be called: its name and its arguments.  A text is
\* made of braces, a letter and a blank.  The update
\* of merge_constraints_dict is None (<<>>) or an LLMConstraints object, each
\* of whose fields is None (<<>>) or set; the parsed constraints given to
\* the completeness checks have each required field absent or set, and the
\* city possibly empty.
HelpersInit ==
    /\ GraphInit
    /\ grounding = <<>>
    /\ fingerprints = <<>>
    /\ tool_client = <<>>
    /\ \/ \E bk \in SUBSET {"city", "adults", "max_price"},
             update \in Opt([{"city", "adults", "check_in"} -> {<<>>, <<"new">>}]) :
            helper = <<[fn |-> "merge_constraints_dict",
                        base |-> [k \in bk |-> CASE k = "city" -> "Austin"
                                                 [] k = "adults" -> 1
                                                 [] OTHER -> 250],
                        update |-> IF update = <<>> THEN <<>>
                                   ELSE <<[k \in DOMAIN update[1] |->
                                            IF update[1][k] = <<>> THEN <<>>
                                            ELSE CASE k = "city" -> <<"Dallas">>
                                                   [] k = "adults" -> <<2>>
                                                   [] OTHER -> <<"date(2026,3,10)">>]>>,
                        done |-> FALSE]>>
       \/ \E n \in 0..MaxLen : \E text \in [1..n -> {"{", "}", "a", " "}] :
            helper = <<[fn |-> "extract_first_json_object", text |-> text, done |-> FALSE]>>
       \/ \E pk \in SUBSET {"city", "check_in", "check_out", "adults", "rooms"},
             city \in {"", "Austin"} :
            helper = <<[fn |-> "is_complete",
                        parsed |-> [k \in pk |-> CASE k = "city" -> city
                                                   [] k = "check_in" -> "date(2026,3,10)"
                                                   [] k = "check_out" -> "date(2026,3,12)"
                                                   [] k = "adults" -> 2
                                                   [] OTHER -> 1],
                        done |-> FALSE]>>
       \/ \E base \in {EmptyDict, "min_star" :> 3},
             tools_held \in BOOLEAN,
             eu \in Opt({"rooms" :> 3, "children" :> 2, "check_in" :> CheckInIso,
                         ("city" :> SomeCity) @@ ("check_in" :> CheckInIso)
                             @@ ("check_out" :> CheckOutIso) @@ ("adults" :> 2)
                             @@ ("rooms" :> 1)}),
             dates \in Opt({("check_in" :> CheckInIso) @@ ("check_out" :> CheckOutIso)}),
             city \in {ResolverFailed}
                      \cup ResolverOutcomes({"city" :> SomeCity}),
             occupancy \in {ResolverFailed}
                           \cup ResolverOutcomes({("adults" :> 2) @@ ("children" :> 0)
                                                      @@ ("rooms" :> 1)}),
             budget \in Opt({"max_price" :> 200}),
             patch \in [ok : {TRUE}, set : Opt({"min_star" :> 4}),
                        clear : {{}, {"min_star"}}] :
            /\ city.question = <<>>
            /\ occupancy.question = <<>>
            /\ helper = <<[fn |-> "resolution_pipeline", base |-> base,
                           tools_held |-> tools_held,
                           outputs |-> [extract |-> [ok |-> eu # <<>>,
                                                     constraints_update |-> eu,
                                                     offer_id |-> <<>>],
                                        date |-> [ok |-> TRUE, needs_clarification |-> FALSE,
                                                  question |-> <<>>, dates |-> dates],
                                        city |-> city,
                                        occupancy |-> occupancy,
                                        amenities |-> [ok |-> TRUE,
                                                       needs_clarification |-> FALSE,
                                                       question |-> <<>>,
                                                       update |-> <<"refundable_preferred"
                                                                      :> TRUE>>],
                                        budget |-> [ok |-> TRUE,
                                                    needs_clarification |-> FALSE,
                                                    question |-> <<>>, update |-> budget],
                                        patch |-> patch],
                           runs |-> <<>>, done |-> FALSE]>>
       \/ \E stage \in {"EXTRACT", "DATE", "CITY", "OCCUPANCY", "AMENITIES", "BUDGET",
                        "HARD_FILTER_PATCH", "DECISION"} :
            helper = <<[fn |-> "llm_loop", stage |-> stage, results |-> <<>>,
                        status |-> "running", action |-> <<>>, done |-> FALSE]>>

\* merge_constraints_dict(base, update): with no update the base itself is
\* returned; otherwise a copy of the base is overwritten with the fields of
\* update.model_dump(exclude_none=True).  base_after is the caller's dict
\* after the call, out_is_base whether the result is that same dict.
merge_call_in_place ==
    /\ helper # <<>> /\ helper[1].fn = "merge_constraints_dict" /\ ~helper[1].done
    /\ LET h == helper[1]
           dump == IF h.update = <<>> THEN <<>>
                   ELSE <<[k \in {f \in DOMAIN h.update[1] : h.update[1][f] # <<>>} |->
                            h.update[1][k][1]]>>
       IN  helper' = <<[fn |-> h.fn, base |-> h.base, update |-> h.update, done |-> TRUE,
                        out |-> merge_constraints_dict(h.base, dump),
                        base_after |-> merge_constraints_dict(h.base, dump),
                        out_is_base |-> TRUE]>>
    /\ UNCHANGED <<graph_vars, grounding, fingerprints, tool_client>>
merge_call ==
    /\ helper # <<>> /\ helper[1].fn = "merge_constraints_dict" /\ ~helper[1].done
    /\ LET h == helper[1]
           dump == IF h.update = <<>> THEN <<>>
                   ELSE <<[k \in {f \in DOMAIN h.update[1] : h.update[1][f] # <<>>} |->
                            h.update[1][k][1]]>>
       IN  helper' = <<[fn |-> h.fn, base |-> h.base, update |-> h.update, done |-> TRUE,
                        out |-> merge_constraints_dict(h.base, dump),
                        base_after |-> h.base,
                        out_is_base |-> (h.update = <<>>)]>>
    /\ UNCHANGED <<graph_vars, grounding, fingerprints, tool_client>>

\* extract_first_json_object(text)
extract_json_call ==
    /\ helper # <<>> /\ helper[1].fn = "extract_first_json_object" /\ ~helper[1].done
    /\ helper' = <<[fn |-> helper[1].fn, text |-> helper[1].text, done |-> TRUE,
                    out |-> extract_first_json_object(helper[1].text)]>>
    /\ UNCHANGED <<graph_vars, grounding, fingerprints, tool_client>>

\* Constraints(**tool_constraint_subset(parsed)).is_complete() next to
\* missing_required_fields(parsed), as the decision node evaluates them.
completeness_call ==
    /\ helper # <<>> /\ helper[1].fn = "is_complete" /\ ~helper[1].done
    /\ helper' = <<[fn |-> helper[1].fn, parsed |-> helper[1].parsed, done |-> TRUE,
                    complete |-> is_complete(helper[1].parsed),
                    missing |-> missing_required_fields(helper[1].parsed)]>>
    /\ UNCHANGED <<graph_vars, grounding, fingerprints, tool_client>>

\* One pass of Steps 1 to 1e: the first on the constraints the session
\* holds, the second, for the same message with the same answers, on the
\* constraints the first pass left.
pipeline_run ==
    /\ helper # <<>> /\ helper[1].fn = "resolution_pipeline" /\ ~helper[1].done
    /\ LET h == helper[1]
           c == IF h.runs = <<>> THEN h.base ELSE h.runs[Len(h.runs)].constraints
       IN  helper' = <<[h EXCEPT !.runs = Append(@, resolution_pipeline(c, h.outputs,
                                                                        h.tools_held)),
                                 !.done = (Len(h.runs) = 1)]>>
    /\ UNCHANGED <<graph_vars, grounding, fingerprints, tool_client>>

\* A loop that goes round once more than the source's.
max_attempts_one_more(stage) == IF stage = "DECISION" THEN 3 ELSE 4

\* for attempt in range(3) of the resolver stages, range(2) of the decision.
max_attempts(stage) == IF stage = "DECISION" THEN 2 ELSE 3

\* One iteration of the try/except loop around a call of the model: the
\* model is invoked and the call fails, or its output holds no JSON object,
\* or JSON that does not load, or JSON the schema rejects, or a valid
\* result; every exception is caught.  A valid result leaves the loop; the
\* decision loop that ends without one sets the generic response.
llm_attempt ==
    /\ helper # <<>> /\ helper[1].fn = "llm_loop" /\ ~helper[1].done
    /\ \E r \in {"valid", "llm_error", "no_json", "bad_json", "schema_invalid"} :
         LET h == helper[1]
             results == Append(h.results, r)
             exhausted == r # "valid" /\ Len(results) >= max_attempts(h.stage)
         IN  helper' = <<[h EXCEPT !.results = results,
                                   !.status = IF r = "valid" THEN "valid"
                                              ELSE IF exhausted THEN "exhausted"
                                              ELSE "running",
                                   !.action = IF exhausted /\ h.stage = "DECISION"
                                              THEN <<Respond("generic",
                                                             Hint("hint:Model decision failed."))>>
                                              ELSE <<>>,
                                   !.done = (r = "valid" \/ exhausted)]>>
    /\ UNCHANGED <<graph_vars, grounding, fingerprints, tool_client>>

HelpersSpec ==
    HelpersInit
    /\ [][merge_call \/ extract_json_call \/ completeness_call \/ pipeline_run
          \/ llm_attempt]_vars

Called(fn) == helper # <<>> /\ helper[1].fn = fn /\ helper[1].done

\* ---------------------------------------------------------------- C24
\* C24: when a pass of the resolution pipeline ended without a question and
\* left complete constraints, a second pass for the same user message with
\* the same resolver outputs, started on those constraints, leaves them
\* identical.
C24_PipelineIdempotent ==
    (/\ Called("resolution_pipeline")
     /\ ~helper[1].runs[1].asked
     /\ is_complete(helper[1].runs[1].constraints))
    => /\ ~helper[1].runs[2].asked
       /\ helper[1].runs[2].constraints = helper[1].runs[1].constraints

\* ---------------------------------------------------------------- C25
\* C25 as stated: the merge gives the update's value for every field the
\* update sets and the base's value for every other field, drops no field
\* of the base, leaves the base as it was, and its result is a new value,
\* not the base itself.
C25_AsStated ==
    Called("merge_constraints_dict")
    => LET h == helper[1]
           set == IF h.update = <<>> THEN {}
                  ELSE {k \in DOMAIN h.update[1] : h.update[1][k] # <<>>}
       IN  /\ DOMAIN h.out = DOMAIN h.base \cup set
           /\ \A k \in DOMAIN h.out :
                h.out[k] = IF k \in set THEN h.update[1][k][1] ELSE h.base[k]
           /\ h.base_after = h.base
           /\ ~h.out_is_base

\* C25 amended: the same, except that the result is a new value only when
\* an update is given; with no update (None) the base itself is returned.
C25_MergePrefersUpdate ==
    Called("merge_constraints_dict")
    => LET h == helper[1]
           set == IF h.update = <<>> THEN {}
                  ELSE {k \in DOMAIN h.update[1] : h.update[1][k] # <<>>}
       IN  /\ DOMAIN h.out = DOMAIN h.base \cup set
           /\ \A k \in DOMAIN h.out :
                h.out[k] = IF k \in set THEN h.update[1][k][1] ELSE h.base[k]
           /\ h.base_after = h.base
           /\ h.out_is_base = (h.update = <<>>)

\* The case of the unit test: the update sets the city the base has and the
\* adults the base lacks, and says nothing (None) about the check-in; the
\* base's max_price survives.
C25_Witness ==
    /\ Called("merge_constraints_dict")
    /\ helper[1].base = ("city" :> "Austin" @@ "max_price" :> 250)
    /\ helper[1].update # <<>>
    /\ helper[1].update[1]["check_in"] = <<>>
    /\ helper[1].out = ("city" :> "Dallas" @@ "adults" :> 2 @@ "max_price" :> 250)

\* ---------------------------------------------------------------- C26
\* C26: the extraction returns the first balanced brace-delimited object of
\* the text, from its first "{" to the matching "}", whatever surrounds it;
\* it raises "No JSON object found" when the text has no "{" and
\* "Unterminated JSON object" when the first "{" is never closed.
C26_FirstBalancedObject ==
    Called("extract_first_json_object")
    => LET text == helper[1].text
           opens == {i \in 1..Len(text) : text[i] = "{"}
           first == CHOOSE i \in opens : \A j \in opens : i <= j
           balanced(i) == Cardinality({j \in first..i : text[j] = "{"})
                          = Cardinality({j \in first..i : text[j] = "}"})
           ends == {i \in first..Len(text) : balanced(i)}
       IN  IF opens = {}
           THEN helper[1].out.raised = <<"No JSON object found in model output.">>
           ELSE IF ends = {}
           THEN helper[1].out.raised = <<"Unterminated JSON object in model output.">>
           ELSE /\ helper[1].out.raised = <<>>
                /\ helper[1].out.value
                   = SubSeq(text, first, CHOOSE i \in ends : \A j \in ends : i <= j)

\* ---------------------------------------------------------------- C27
\* C27: the constraints are complete exactly when city, check-in, check-out,
\* adults and rooms are all present (set, the city to a non-empty name), and
\* is_complete() is true exactly when missing_required_fields() is empty.
C27_CompleteIffNothingMissing ==
    Called("is_complete")
    => /\ helper[1].complete
          = \A k \in {"city", "check_in", "check_out", "adults", "rooms"} :
               k \in DOMAIN helper[1].parsed /\ (k = "city" => helper[1].parsed[k] # "")
       /\ helper[1].complete = (helper[1].missing = <<>>)

\* Both outcomes are seen: every field present, and only the check-out
\* absent, which is reported as the missing group "dates".
C27_Witness ==
    /\ Called("is_complete")
    /\ ~helper[1].complete
    /\ helper[1].missing = <<"dates">>
    /\ "check_in" \in DOMAIN helper[1].parsed

\* ---------------------------------------------------------------- C28
\* C28: a resolver stage invokes the model at most 3 times and a DECIDE step
\* at most 2 times; no call follows the first schema-valid result; and a
\* DECIDE step whose 2 results are both invalid goes on to the generic
\* response, nothing being raised.
C28_BoundedModelCalls ==
    (helper # <<>> /\ helper[1].fn = "llm_loop")
    => LET h == helper[1]
           n == Len(h.results)
       IN  /\ n <= (IF h.stage = "DECISION" THEN 2 ELSE 3)
           /\ \A i \in 1..(n - 1) : h.results[i] # "valid"
           /\ h.done <=> (n > 0 /\ h.results[n] = "valid")
                         \/ n = (IF h.stage = "DECISION" THEN 2 ELSE 3)
           /\ h.status \in {"running", "valid", "exhausted"}
           /\ (h.stage = "DECISION" /\ h.done /\ h.results[n] # "valid")
              => /\ h.status = "exhausted"
                 /\ h.action = <<Respond("generic", Hint("hint:Model decision failed."))>>

\* A DECIDE step got output the schema rejects, then output with no JSON
\* object in it.
C28_Witness ==
    /\ Called("llm_loop")
    /\ helper[1].stage = "DECISION"
    /\ helper[1].results = <<"schema_invalid", "no_json">>
    /\ helper[1].status = "exhausted"

\* ---------------------------------------------------------------- C29
\* C29: a resolver stage, HARD_FILTER_PATCH included, runs only while the
\* per-turn tool-call counter is 0; the decision node is entered again in a
\* turn only after a tool call was counted, so no later DECIDE step runs a
\* stage; and as the steps of the prelude are passed in order, each running
\* its own stages once, each stage runs at most once per turn.
C29_ResolversOnlyAtTurnStart ==
    [][LET prelude == <<"EXTRACT", "DATE_RESOLVE", "RESOLVE_NON_DATE", "RESOLVE_BUDGET",
                        "RESOLVE_HARD_FILTERS">>
           stages_of == <<{"EXTRACT"}, {"DATE"}, {"CITY", "OCCUPANCY", "AMENITIES"},
                          {"BUDGET"}, {"HARD_FILTER_PATCH"}>>
           at(p) == CHOOSE i \in 1..5 : prelude[i] = p
       IN  /\ resolver_log' # <<>>
              => /\ tool_calls_this_turn = 0
                 /\ tool_calls_this_turn' = 0
                 /\ InSeq(pc, prelude)
                 /\ \A i \in 1..Len(resolver_log') :
                      /\ resolver_log'[i].stage \in stages_of[at(pc)]
                      /\ \A j \in 1..Len(resolver_log') :
                           resolver_log'[i].stage = resolver_log'[j].stage => i = j
           /\ (pc # "IDLE" /\ pc' = "EXTRACT")
              => pc = "CALL_TOOL" /\ tool_calls_this_turn' > 0
           /\ (InSeq(pc, prelude) /\ InSeq(pc', prelude)) => at(pc') > at(pc)]_vars

\* The decision node is entered again after the first tool call of a turn
\* whose prelude ran to its end.
C29_Witness ==
    /\ pc = "EXTRACT"
    /\ tool_calls_this_turn = 1
    /\ tool_timeline = <<"search_candidates">>
    /\ is_complete(constraints)

\* ---------------------------------------------------------------- C30
\* C30: a rank_offers call that succeeds is followed by RESPOND with the
\* intent "explain"; from RESPOND the turn makes no decision call and no
\* tool call any more.
C30_RankThenExplain ==
    [][/\ (pc = "CALL_TOOL" /\ tool_timeline' = Append(tool_timeline, "rank_offers"))
          => /\ pc' = "LLM_RESPOND"
             /\ llm_action'.type = "respond"
             /\ llm_action'.kind = "explain"
       /\ pc = "LLM_RESPOND"
          => /\ pc' \in {"LLM_RESPOND", "END"}
             /\ UNCHANGED <<calls, tool_timeline, tool_calls_this_turn, llm_action>>]_vars

\* The ranking of the offers of the turn has just succeeded.
C30_Witness ==
    /\ pc = "LLM_RESPOND"
    /\ tool_timeline # <<>>
    /\ tool_timeline[Len(tool_timeline)] = "rank_offers"
    /\ ranked_offers # <<>>
    /\ llm_action.kind = "explain"

\* ---------------------------------------------------------------- C31
\* C31: when search_candidates returns no candidate the turn goes to RESPOND
\* with the no-results response and from there to its end: no tool call and
\* no decision step follows, and the cached offers, ranked offers and
\* recommended offers are empty, in the state and in the snapshot written.
C31_NoCandidatesEndsTurn ==
    [][LET no_results ==
             Respond("generic", Hint("hint:No candidate hotels matched these constraints."))
       IN  /\ (/\ pc = "CALL_TOOL"
               /\ tool_timeline' = Append(tool_timeline, "search_candidates")
               /\ candidates' = <<>>)
              => /\ pc' = "LLM_RESPOND"
                 /\ llm_action' = no_results
                 /\ offers' = <<>> /\ ranked_offers' = <<>> /\ recommended_offers' = <<>>
           /\ (pc = "LLM_RESPOND" /\ llm_action = no_results)
              => /\ pc' = "END"
                 /\ calls' = calls
                 /\ tool_calls_this_turn' = tool_calls_this_turn
                 /\ offers' = <<>> /\ ranked_offers' = <<>> /\ recommended_offers' = <<>>
           /\ (pc = "END" /\ llm_action = no_results)
              => /\ pc' = "IDLE"
                 /\ snapshot'[1].offers = <<>>
                 /\ snapshot'[1].ranked_offers = <<>>
                 /\ snapshot'[1].recommended_offers = <<>>]_vars

\* The search of the second turn found nothing, in a session whose first
\* turn had presented offers.
C31_Witness ==
    /\ pc = "END"
    /\ turn = 2
    /\ llm_action
       = Respond("generic", Hint("hint:No candidate hotels matched these constraints."))
    /\ tool_timeline = <<"search_candidates">>
    /\ snapshot # <<>>
    /\ snapshot[1].recommended_offers # <<>>

\* ---------------------------------------------------------------- C32
\* C32: get_offers is called only with cached candidates and both dates
\* resolved, and its payload names the first candidates of the cache, at
\* least 1 and at most max_hotels_priced_per_turn of them; rank_offers is
\* called only with cached offers; when get_offers or rank_offers is due
\* and its precondition fails, no tool is called and the turn goes to
\* RESPOND.
C32_ToolPreconditions ==
    [][LET parsed == LLMConstraintsDump(constraints)
           dated == Truthy(parsed, "check_in") /\ Truthy(parsed, "check_out")
           issued == calls'[Len(calls')]
           due(tool_name) == /\ pc = "CALL_TOOL"
                             /\ tool_calls_this_turn < max_tool_calls_per_turn
                             /\ llm_action.tool_name = tool_name
       IN  /\ (Len(calls') > Len(calls) /\ issued.tool_name = "get_offers")
              => /\ candidates # <<>>
                 /\ dated
                 /\ Len(issued.hotel_ids) >= 1
                 /\ Len(issued.hotel_ids) <= max_hotels_priced_per_turn
                 /\ Len(issued.hotel_ids) <= Len(candidates)
                 /\ Len(issued.hotel_ids) = max_hotels_priced_per_turn
                    \/ Len(issued.hotel_ids) = Len(candidates)
                 /\ \A i \in 1..Len(issued.hotel_ids) :
                      issued.hotel_ids[i] = candidates[i].hotel_id
           /\ (Len(calls') > Len(calls) /\ issued.tool_name = "rank_offers")
              => offers # <<>>
           /\ (\/ due("get_offers") /\ (candidates = <<>> \/ ~dated)
               \/ due("rank_offers") /\ offers = <<>>)
              => /\ calls' = calls
                 /\ tool_timeline' = tool_timeline
                 /\ pc' = "LLM_RESPOND"
                 /\ llm_action'.type = "respond"]_vars

\* get_offers has priced the first max_hotels_priced_per_turn hotels of a
\* longer candidate list.
C32_Witness ==
    /\ calls # <<>>
    /\ calls[Len(calls)].tool_name = "get_offers"
    /\ Len(calls[Len(calls)].hotel_ids) = max_hotels_priced_per_turn
    /\ Len(candidates) > max_hotels_priced_per_turn
    /\ offers # <<>>

\* ---------------------------------------------------------------- C33
\* C33: a turn that ends while a blocking field (city, dates, adults or
\* rooms) is still missing ends in the agent state COLLECT_CONSTRAINTS, that
\* is by asking the user a clarifying question.
C33_MissingFieldEndsWithQuestion ==
    (pc = "END" /\ missing_required_fields(LLMConstraintsDump(constraints)) # <<>>)
    => agent_state = "COLLECT_CONSTRAINTS"

\* ---------------------------------------------------------------- C34
\* C34: every turn terminates.  A CALL_TOOL step increments the per-turn
\* counter or sets a respond action and goes to RESPOND; the decision node
\* is entered again only by a CALL_TOOL step that incremented the counter,
\* which never exceeds max_tool_calls_per_turn: so at most
\* max_tool_calls_per_turn + 1 CALL_TOOL steps and as many DECIDE steps run
\* in a turn.  Every step of a turn lowers a measure that is a natural
\* number: the calls left, then the steps left before the next call.
C34_TurnTerminates ==
    [][LET steps_left(p) ==
             CASE p = "EXTRACT" -> 9
               [] p = "DATE_RESOLVE" -> 8
               [] p = "RESOLVE_NON_DATE" -> 7
               [] p = "RESOLVE_BUDGET" -> 6
               [] p = "RESOLVE_HARD_FILTERS" -> 5
               [] p = "INVALIDATE" -> 4
               [] p = "DECISION" -> 3
               [] p = "CALL_TOOL" -> 2
               [] p = "LLM_RESPOND" -> 1
               [] OTHER -> 0
           measure(p, used) == (max_tool_calls_per_turn + 1 - used) * 10 + steps_left(p)
       IN  /\ tool_calls_this_turn' <= max_tool_calls_per_turn
           /\ pc = "CALL_TOOL"
              => \/ tool_calls_this_turn' = tool_calls_this_turn + 1
                 \/ /\ tool_calls_this_turn' = tool_calls_this_turn
                    /\ pc' = "LLM_RESPOND"
                    /\ llm_action'.type = "respond"
           /\ (pc # "IDLE" /\ pc' = "EXTRACT")
              => /\ pc = "CALL_TOOL"
                 /\ tool_calls_this_turn' = tool_calls_this_turn + 1
           /\ pc \notin {"IDLE", "END", "CRASHED", "CONFIG_ERROR"}
              => /\ measure(pc', tool_calls_this_turn') < measure(pc, tool_calls_this_turn)
                 /\ measure(pc', tool_calls_this_turn') >= 0
           /\ pc \in {"END", "CRASHED", "CONFIG_ERROR"} => pc' = "IDLE"]_vars

\* A turn has come to its end after max_tool_calls_per_turn + 1 CALL_TOOL
\* steps, the last of which was refused.
C34_Witness ==
    /\ pc = "END"
    /\ tool_calls_this_turn = max_tool_calls_per_turn
    /\ Len(calls) = max_tool_calls_per_turn
    /\ llm_action = Respond("generic", Hint("hint:Tool call limit reached for this turn."))

\* ---------------------------------------------------------------- C35
\* C35: in every session state persisted by a /chat turn the caches are
\* nested and keyed: offers only with candidates, ranked offers only with
\* offers, recommended offers only with ranked offers, and any cache only
\* with a stored fingerprint.
C35_CachesNested ==
    snapshot # <<>>
    => LET s == snapshot[1] IN
       /\ s.offers # <<>> => s.candidates # <<>>
       /\ s.ranked_offers # <<>> => s.offers # <<>>
       /\ s.recommended_offers # <<>> => s.ranked_offers # <<>>
       /\ (s.candidates # <<>> \/ s.offers # <<>> \/ s.ranked_offers # <<>>
           \/ s.recommended_offers # <<>>)
          => s.tool_constraints_key # <<>>

\* The second turn of a session ended after its constraints had changed:
\* the caches of the first turn were dropped, the search ran again and
\* get_offers found nothing to price.
C35_Witness ==
    /\ pc = "IDLE"
    /\ turn = 2
    /\ snapshot # <<>>
    /\ snapshot[1].candidates # <<>>
    /\ snapshot[1].offers = <<>>
    /\ snapshot[1].tool_constraints_key # <<>>
    /\ "min_star" \in DOMAIN snapshot[1].constraints
    /\ prev_key # <<>>
    /\ prev_key # snapshot[1].tool_constraints_key

\* ---------------------------------------------------------------- C36
\* C36: when a turn ends by presenting recommended offers (agent state
\* WAIT_FOR_SELECTION with recommended offers), the stored fingerprint is
\* the fingerprint of the constraints persisted for that turn.
C36_ShownOffersMatchConstraints ==
    (/\ pc = "END"
     /\ agent_state = "WAIT_FOR_SELECTION"
     /\ recommended_offers # <<>>)
    => tool_constraints_key = <<CurKey(constraints)>>

\* ---------------------------------------------------------------- C37
\* C37: at every get_offers and rank_offers call the fingerprint of the
\* current constraints is the one recorded by the search_candidates call
\* that produced the cached candidates.
C37_PipelineKeepsFingerprint ==
    (/\ calls # <<>>
     /\ calls[Len(calls)].tool_name \in {"get_offers", "rank_offers"}
     /\ pc # "IDLE")
    => <<calls[Len(calls)].key>> = tool_constraints_key

\* ---------------------------------------------------------------- C38
\* C38: once the constraints are complete they stay complete: no step of a
\* turn (resolver stage, hard-filter clear, decision merge) removes or
\* blanks city, check-in, check-out, adults or rooms, so a complete
\* snapshot is followed by complete snapshots only.
C38_CompleteStaysComplete ==
    [][(/\ pc # "IDLE"
        /\ missing_required_fields(constraints) = <<>>)
       => missing_required_fields(constraints') = <<>>]_vars

\* ---------------------------------------------------------------- C39
\* C39: the agent state reported and persisted at the end of a completed
\* turn is WAIT_FOR_SELECTION, CONFIRM, COLLECT_CONSTRAINTS or RESPOND; the
\* step tags LLM_DECIDE, CALL_TOOL, LLM_RESPOND and the default UNKNOWN (an
\* empty agent state) never leave a completed turn.
C39_FinalAgentState ==
    pc = "END" =>
        agent_state \in {"WAIT_FOR_SELECTION", "CONFIRM", "COLLECT_CONSTRAINTS", "RESPOND"}

\* A turn that went through the decision and tool steps, whose tags were
\* overwritten by the response step.
C39_Witness ==
    /\ pc = "END"
    /\ tool_calls_this_turn > 0
    /\ agent_state = "RESPOND"

\* ---------------------------------------------------------------- C40
\* The turn was loaded with candidates, offers and ranked offers, its
\* fingerprint check has passed without invalidating (the resolved
\* constraints have the stored fingerprint), and nothing was called yet.
C40_CacheHit ==
    /\ pc \in {"DECISION", "CALL_TOOL", "LLM_RESPOND"}
    /\ snapshot # <<>>
    /\ snapshot[1].candidates # <<>>
    /\ snapshot[1].offers # <<>>
    /\ snapshot[1].ranked_offers # <<>>
    /\ snapshot[1].tool_constraints_key # <<>>
    /\ calls = <<>>
    /\ candidates = snapshot[1].candidates
    /\ offers = snapshot[1].offers
    /\ ranked_offers = snapshot[1].ranked_offers
    /\ tool_constraints_key = snapshot[1].tool_constraints_key

\* C40: in a turn that starts with cached candidates, offers and ranked
\* offers and whose resolved constraints have the stored fingerprint, no
\* tool is called, the three caches and the stored fingerprint are left
\* unchanged, and the turn ends presenting the cached top offers.
C40_CacheHitPresentsCachedOffers ==
    [][C40_CacheHit =>
        /\ calls' = <<>>
        /\ pc' \notin {"CRASHED", "CONFIG_ERROR"}
        /\ candidates' = candidates
        /\ offers' = offers
        /\ ranked_offers' = ranked_offers
        /\ tool_constraints_key' = tool_constraints_key
        /\ pc' = "END" =>
              /\ agent_state' = "WAIT_FOR_SELECTION"
              /\ recommended_offers' = build_offer_cards
              /\ assistant_message' = render_top_offers_message(build_offer_cards)]_vars

====
